---- MODULE Spec2Model ----
(***************************************************************************)
(* A model of the Nexel-24 emulator core: the 24-bit bus, the HXC-24 CPU   *)
(* with its interrupt queue, the VDP timing/register surface and the       *)
(* top-level emulator scheduler.                                           *)
(*                                                                         *)
(* Integer widths.  TLC integers are 32-bit signed, so a Rust u32 is held  *)
(* as two limbs [hi |-> bits 24..31, lo |-> bits 0..23]; u8/u16/u24 values *)
(* are plain integers reduced modulo their width.                          *)
(* Memory.  Every Vec<u8> region starts zero-filled; a region is held as   *)
(* the function from the offsets of its non-zero bytes to those bytes.     *)
(***************************************************************************)
EXTENDS Integers, Sequences, FiniteSets, TLC

\* ------------------------------------------------------------------ widths
TwoPow8 == 2^8
TwoPow16 == 2^16
TwoPow24 == 2^24

Byte == 0..255

\* u32 as two limbs
W32(h, l) == [hi |-> h, lo |-> l]
\* a value below 2^24 widened to u32
U32(n) == W32(0, n)
\* u32::wrapping_add of the u32 whose limbs are (dh, dl)
WrappingAdd32(w, dh, dl) ==
    LET s == w.lo + dl
    IN  W32((w.hi + dh + (s \div TwoPow24)) % TwoPow8, s % TwoPow24)
\* u32::wrapping_add(k) for a small non-negative k
AddU32(w, k) == WrappingAdd32(w, 0, k)
\* a conversion of the operand byte that zero-extends (`b as u32`)
SignExtend8_zero_extended(b) == W32(0, b)
\* `b as i8 as i32 as u32`: the sign-extended byte as u32 limbs
SignExtend8(b) ==
    IF b >= 128 THEN W32(255, TwoPow24 - 256 + b) ELSE W32(0, b)
\* wrapping_add(offset as u32)
AddOffset(w, b) == WrappingAdd32(w, SignExtend8(b).hi, SignExtend8(b).lo)

RECURSIVE BitAnd(_, _)
BitAnd(p, q) ==
    IF p = 0 \/ q = 0 THEN 0
    ELSE (IF p % 2 = 1 /\ q % 2 = 1 THEN 1 ELSE 0) + 2 * BitAnd(p \div 2, q \div 2)
RECURSIVE BitOr(_, _)
BitOr(p, q) ==
    IF p = 0 THEN q
    ELSE IF q = 0 THEN p
    ELSE (IF p % 2 = 1 \/ q % 2 = 1 THEN 1 ELSE 0) + 2 * BitOr(p \div 2, q \div 2)
RECURSIVE BitXor(_, _)
BitXor(p, q) ==
    IF p = 0 THEN q
    ELSE IF q = 0 THEN p
    ELSE (IF (p % 2) # (q % 2) THEN 1 ELSE 0) + 2 * BitXor(p \div 2, q \div 2)

\* ------------------------------------------------------------------ memory
EmptyMem == [o \in {} |-> 0]
MemGet(region, off) == IF off \in DOMAIN region THEN region[off] ELSE 0
MemSet(region, off, v) ==
    IF v = 0
    THEN [o \in (DOMAIN region) \ {off} |-> region[o]]
    ELSE [o \in (DOMAIN region) \cup {off} |-> IF o = off THEN v ELSE region[o]]
\* `dst[..len].copy_from_slice(&data[..len])` for data given as a sequence
CopyFromSlice(region, data, len) ==
    [o \in ((DOMAIN region) \ (0..(len - 1))) \cup {i \in 0..(len - 1) : data[i + 1] # 0}
        |-> IF o < len THEN data[o + 1] ELSE region[o]]

\* ------------------------------------------------------------------ Bus24
WORKRAM_SIZE == 65536
EXPANDED_RAM_SIZE == 196608
IO_SIZE == 65536
VRAM_SIZE == 524288
CRAM_SIZE == 65536
CART_ROM_SIZE == 6291456
CART_SAVE_SIZE == 262144
BIOS_SIZE == 65536

WORKRAM_BASE == 0
EXPANDED_RAM_BASE == 65536
EXPANDED_RAM_END == 262144
IO_BASE == 1048576
VRAM_BASE == 2097152
CRAM_BASE == 2621440
CART_ROM_BASE == 4194304
CART_SAVE_BASE == 10485760
BIOS_BASE == 16711680

Bus24_new ==
    [workram |-> EmptyMem, expanded_ram |-> EmptyMem, io |-> EmptyMem,
     vram |-> EmptyMem, cram |-> EmptyMem, cart_rom |-> EmptyMem,
     cart_save |-> EmptyMem, bios |-> EmptyMem]

Min(p, q) == IF p < q THEN p ELSE q

load_bios(bus, data) ==
    [bus EXCEPT !.bios = CopyFromSlice(@, data, Min(Len(data), BIOS_SIZE))]

load_cart_rom(bus, data) ==
    [bus EXCEPT !.cart_rom = CopyFromSlice(@, data, Min(Len(data), CART_ROM_SIZE))]

\* Bus24::read_u8: addr is a u32, masked to 24 bits; first matching range wins
read_u8(bus, addr) ==
    LET a == addr.lo
    IN  IF a < EXPANDED_RAM_BASE THEN MemGet(bus.workram, a)
        ELSE IF a >= EXPANDED_RAM_BASE /\ a < EXPANDED_RAM_END
            THEN MemGet(bus.expanded_ram, a - EXPANDED_RAM_BASE)
        ELSE IF a >= IO_BASE /\ a < IO_BASE + IO_SIZE THEN MemGet(bus.io, a - IO_BASE)
        ELSE IF a >= VRAM_BASE /\ a < VRAM_BASE + VRAM_SIZE
            THEN MemGet(bus.vram, a - VRAM_BASE)
        ELSE IF a >= CRAM_BASE /\ a < CRAM_BASE + CRAM_SIZE
            THEN MemGet(bus.cram, a - CRAM_BASE)
        ELSE IF a >= CART_ROM_BASE /\ a < CART_ROM_BASE + CART_ROM_SIZE
            THEN MemGet(bus.cart_rom, a - CART_ROM_BASE)
        ELSE IF a >= CART_SAVE_BASE /\ a < CART_SAVE_BASE + CART_SAVE_SIZE
            THEN MemGet(bus.cart_save, a - CART_SAVE_BASE)
        ELSE IF a >= BIOS_BASE
            THEN (IF a - BIOS_BASE < BIOS_SIZE THEN MemGet(bus.bios, a - BIOS_BASE)
                  ELSE 255)
        ELSE 255

\* a write_u8 that matches on the unmasked address: an address beyond 24 bits
\* compares >= BIOS_BASE and is dropped
write_u8_unmasked(bus, addr, value) ==
    LET a == addr.lo
    IN  IF addr.hi # 0 THEN bus
        ELSE IF a < EXPANDED_RAM_BASE THEN [bus EXCEPT !.workram = MemSet(@, a, value)]
        ELSE IF a >= EXPANDED_RAM_BASE /\ a < EXPANDED_RAM_END
            THEN [bus EXCEPT !.expanded_ram = MemSet(@, a - EXPANDED_RAM_BASE, value)]
        ELSE IF a >= IO_BASE /\ a < IO_BASE + IO_SIZE
            THEN [bus EXCEPT !.io = MemSet(@, a - IO_BASE, value)]
        ELSE IF a >= VRAM_BASE /\ a < VRAM_BASE + VRAM_SIZE
            THEN [bus EXCEPT !.vram = MemSet(@, a - VRAM_BASE, value)]
        ELSE IF a >= CRAM_BASE /\ a < CRAM_BASE + CRAM_SIZE
            THEN [bus EXCEPT !.cram = MemSet(@, a - CRAM_BASE, value)]
        ELSE IF a >= CART_ROM_BASE /\ a < CART_ROM_BASE + CART_ROM_SIZE THEN bus
        ELSE IF a >= CART_SAVE_BASE /\ a < CART_SAVE_BASE + CART_SAVE_SIZE
            THEN [bus EXCEPT !.cart_save = MemSet(@, a - CART_SAVE_BASE, value)]
        ELSE bus

\* a write_u8 that stores into cartridge ROM
write_u8_rom_writable(bus, addr, value) ==
    LET a == addr.lo
    IN  IF a < EXPANDED_RAM_BASE THEN [bus EXCEPT !.workram = MemSet(@, a, value)]
        ELSE IF a >= EXPANDED_RAM_BASE /\ a < EXPANDED_RAM_END
            THEN [bus EXCEPT !.expanded_ram = MemSet(@, a - EXPANDED_RAM_BASE, value)]
        ELSE IF a >= IO_BASE /\ a < IO_BASE + IO_SIZE
            THEN [bus EXCEPT !.io = MemSet(@, a - IO_BASE, value)]
        ELSE IF a >= VRAM_BASE /\ a < VRAM_BASE + VRAM_SIZE
            THEN [bus EXCEPT !.vram = MemSet(@, a - VRAM_BASE, value)]
        ELSE IF a >= CRAM_BASE /\ a < CRAM_BASE + CRAM_SIZE
            THEN [bus EXCEPT !.cram = MemSet(@, a - CRAM_BASE, value)]
        ELSE IF a >= CART_ROM_BASE /\ a < CART_ROM_BASE + CART_ROM_SIZE
            THEN [bus EXCEPT !.cart_rom = MemSet(@, a - CART_ROM_BASE, value)]
        ELSE IF a >= CART_SAVE_BASE /\ a < CART_SAVE_BASE + CART_SAVE_SIZE
            THEN [bus EXCEPT !.cart_save = MemSet(@, a - CART_SAVE_BASE, value)]
        ELSE bus

\* Bus24::write_u8: ROM, BIOS and unmapped writes are dropped
write_u8(bus, addr, value) ==
    LET a == addr.lo
    IN  IF a < EXPANDED_RAM_BASE THEN [bus EXCEPT !.workram = MemSet(@, a, value)]
        ELSE IF a >= EXPANDED_RAM_BASE /\ a < EXPANDED_RAM_END
            THEN [bus EXCEPT !.expanded_ram = MemSet(@, a - EXPANDED_RAM_BASE, value)]
        ELSE IF a >= IO_BASE /\ a < IO_BASE + IO_SIZE
            THEN [bus EXCEPT !.io = MemSet(@, a - IO_BASE, value)]
        ELSE IF a >= VRAM_BASE /\ a < VRAM_BASE + VRAM_SIZE
            THEN [bus EXCEPT !.vram = MemSet(@, a - VRAM_BASE, value)]
        ELSE IF a >= CRAM_BASE /\ a < CRAM_BASE + CRAM_SIZE
            THEN [bus EXCEPT !.cram = MemSet(@, a - CRAM_BASE, value)]
        ELSE IF a >= CART_ROM_BASE /\ a < CART_ROM_BASE + CART_ROM_SIZE THEN bus
        ELSE IF a >= CART_SAVE_BASE /\ a < CART_SAVE_BASE + CART_SAVE_SIZE
            THEN [bus EXCEPT !.cart_save = MemSet(@, a - CART_SAVE_BASE, value)]
        ELSE IF a >= BIOS_BASE THEN bus
        ELSE bus

read_u16(bus, addr) ==
    read_u8(bus, addr) + TwoPow8 * read_u8(bus, AddU32(addr, 1))

write_u16(bus, addr, v) ==
    write_u8(write_u8(bus, addr, v % TwoPow8), AddU32(addr, 1), v \div TwoPow8)

read_u24(bus, addr) ==
    read_u8(bus, addr) + TwoPow8 * read_u8(bus, AddU32(addr, 1))
        + TwoPow16 * read_u8(bus, AddU32(addr, 2))

write_u24(bus, addr, v) ==
    write_u8(write_u8(write_u8(bus, addr, v % TwoPow8),
                      AddU32(addr, 1), (v \div TwoPow8) % TwoPow8),
             AddU32(addr, 2), (v \div TwoPow16) % TwoPow8)

\* ------------------------------------------------------------------ Cpu
StatusFlags_new ==
    [carry |-> FALSE, zero |-> FALSE, interrupt_disable |-> FALSE,
     decimal |-> FALSE, overflow |-> FALSE, negative |-> FALSE]

\* StatusFlags::update_zn
update_zn(sr, value) ==
    [sr EXCEPT !.zero = (value = 0), !.negative = (BitAnd(value, 32768) # 0)]

NMI_PRIORITY == 7
HBLANK_PRIORITY == 6
DMA_DONE_PRIORITY == 5
VLU_DONE_PRIORITY == 4
APU_BUF_EMPTY_PRIORITY == 3
TIMER0_PRIORITY == 2
PAD_EVENT_PRIORITY == 1
SWI_PRIORITY == 0

Cpu_new ==
    [a |-> 0, x |-> 0, y |-> 0, sp |-> 65535, pc |-> U32(BIOS_BASE),
     sr |-> StatusFlags_new, r |-> [i \in 0..7 |-> 0], cycles |-> 0,
     halted |-> FALSE, pending_interrupts |-> <<>>]

\* a Cpu::reset that also empties the pending queue
reset_clears_queue(c, b) ==
    [c EXCEPT !.a = 0, !.x = 0, !.y = 0, !.sp = 65535, !.r = [i \in 0..7 |-> 0],
              !.sr = StatusFlags_new, !.halted = FALSE,
              !.pc = U32(read_u24(b, U32(BIOS_BASE))), !.cycles = 0,
              !.pending_interrupts = <<>>]

\* Cpu::reset: the pending queue is not touched
reset(c, b) ==
    [c EXCEPT !.a = 0, !.x = 0, !.y = 0, !.sp = 65535, !.r = [i \in 0..7 |-> 0],
              !.sr = StatusFlags_new, !.halted = FALSE,
              !.pc = U32(read_u24(b, U32(BIOS_BASE))), !.cycles = 0]

\* the sort key closure of request_interrupt
Priority(i) ==
    CASE i = 0 -> SWI_PRIORITY
      [] i = 1 -> PAD_EVENT_PRIORITY
      [] i = 2 -> TIMER0_PRIORITY
      [] i = 3 -> APU_BUF_EMPTY_PRIORITY
      [] i = 4 -> VLU_DONE_PRIORITY
      [] i = 5 -> DMA_DONE_PRIORITY
      [] i = 6 -> HBLANK_PRIORITY
      [] i = 7 -> NMI_PRIORITY
      [] OTHER -> 0

Contains(s, e) == \E k \in 1..Len(s) : s[k] = e

\* Vec::sort_by_key(|i| Reverse(priority(i))): a stable sort, highest priority
\* first, equal priorities keeping their order
\* a sort that puts the lowest priority first
RECURSIVE InsertByKey_ascending(_, _)
InsertByKey_ascending(e, t) ==
    IF t = <<>> THEN <<e>>
    ELSE IF Priority(t[1]) < Priority(e) THEN <<t[1]>> \o InsertByKey_ascending(e, Tail(t))
    ELSE <<e>> \o t

RECURSIVE InsertByKey(_, _)
InsertByKey(e, t) ==
    IF t = <<>> THEN <<e>>
    ELSE IF Priority(t[1]) > Priority(e) THEN <<t[1]>> \o InsertByKey(e, Tail(t))
    ELSE <<e>> \o t
RECURSIVE sort_by_key(_)
sort_by_key(s) ==
    IF Len(s) <= 1 THEN s ELSE InsertByKey(Head(s), sort_by_key(Tail(s)))

\* a request_interrupt that enqueues maskable ids whatever the mask
request_interrupt_unmasked(c, int) ==
    IF ~Contains(c.pending_interrupts, int)
    THEN [c EXCEPT !.pending_interrupts = sort_by_key(Append(@, int))]
    ELSE c

\* a request_interrupt that enqueues without looking for the id in the queue
request_interrupt_no_dedup(c, int) ==
    IF int # 7 /\ c.sr.interrupt_disable THEN c
    ELSE [c EXCEPT !.pending_interrupts = sort_by_key(Append(@, int))]

\* Cpu::request_interrupt
request_interrupt(c, int) ==
    IF int # 7 /\ c.sr.interrupt_disable THEN c
    ELSE IF ~Contains(c.pending_interrupts, int)
        THEN [c EXCEPT !.pending_interrupts = sort_by_key(Append(@, int))]
    ELSE c

\* a trigger_nmi that enqueues the NMI behind what is already pending
trigger_nmi_back(c) ==
    IF ~Contains(c.pending_interrupts, 7)
    THEN [c EXCEPT !.pending_interrupts = Append(@, 7)]
    ELSE c

\* Cpu::trigger_nmi
trigger_nmi(c) ==
    IF ~Contains(c.pending_interrupts, 7)
    THEN [c EXCEPT !.pending_interrupts = <<7>> \o @]
    ELSE c

\* a push_u24 that decrements the stack pointer before each write
push_u24_predecrement(m, value) ==
    LET v == value.lo
        sp1 == (m.cpu.sp + TwoPow16 - 1) % TwoPow16
        sp2 == (sp1 + TwoPow16 - 1) % TwoPow16
        sp3 == (sp2 + TwoPow16 - 1) % TwoPow16
        b1 == write_u8(m.bus, U32(sp1), v % TwoPow8)
        b2 == write_u8(b1, U32(sp2), (v \div TwoPow8) % TwoPow8)
        b3 == write_u8(b2, U32(sp3), (v \div TwoPow16) % TwoPow8)
    IN  [cpu |-> [m.cpu EXCEPT !.sp = sp3], bus |-> b3]

\* Cpu::push_u24 on the machine m = [cpu, bus]; value is a u32
push_u24(m, value) ==
    LET v == value.lo
        sp0 == m.cpu.sp
        sp1 == (sp0 + TwoPow16 - 1) % TwoPow16
        sp2 == (sp1 + TwoPow16 - 1) % TwoPow16
        sp3 == (sp2 + TwoPow16 - 1) % TwoPow16
        b1 == write_u8(m.bus, U32(sp0), v % TwoPow8)
        b2 == write_u8(b1, U32(sp1), (v \div TwoPow8) % TwoPow8)
        b3 == write_u8(b2, U32(sp2), (v \div TwoPow16) % TwoPow8)
    IN  [cpu |-> [m.cpu EXCEPT !.sp = sp3], bus |-> b3]

\* a pop_u24 whose stack pointer does not wrap from 0xFFFF to 0x0000
pop_u24_past_top(m) ==
    LET sp1 == m.cpu.sp + 1
        sp2 == sp1 + 1
        sp3 == sp2 + 1
        hi == read_u8(m.bus, U32(sp1))
        mid == read_u8(m.bus, U32(sp2))
        lo == read_u8(m.bus, U32(sp3))
    IN  [value |-> lo + TwoPow8 * mid + TwoPow16 * hi, sp |-> sp3]

\* Cpu::pop_u24: the popped value and the new stack pointer
pop_u24(m) ==
    LET sp1 == (m.cpu.sp + 1) % TwoPow16
        sp2 == (sp1 + 1) % TwoPow16
        sp3 == (sp2 + 1) % TwoPow16
        hi == read_u8(m.bus, U32(sp1))
        mid == read_u8(m.bus, U32(sp2))
        lo == read_u8(m.bus, U32(sp3))
    IN  [value |-> lo + TwoPow8 * mid + TwoPow16 * hi, sp |-> sp3]

\* a handle_interrupts that leaves the interrupt-disable flag as it found it
handle_interrupts_keep_mask(m) ==
    IF m.cpu.pending_interrupts # <<>>
    THEN LET int == m.cpu.pending_interrupts[1]
         IN  IF int # 7 /\ m.cpu.sr.interrupt_disable
             THEN [handled |-> FALSE, cpu |-> m.cpu, bus |-> m.bus]
             ELSE LET p == push_u24(m, m.cpu.pc)
                  IN  [handled |-> TRUE,
                       cpu |-> [p.cpu EXCEPT
                                  !.pc = U32(read_u24(m.bus, U32(BIOS_BASE + int * 3))),
                                  !.pending_interrupts = Tail(@),
                                  !.cycles = @ + 7],
                       bus |-> p.bus]
    ELSE [handled |-> FALSE, cpu |-> m.cpu, bus |-> m.bus]

\* a handle_interrupts that dispatches maskable interrupts whatever the mask
handle_interrupts_ignore_mask(m) ==
    IF m.cpu.pending_interrupts # <<>>
    THEN LET int == m.cpu.pending_interrupts[1]
             p == push_u24(m, m.cpu.pc)
         IN  [handled |-> TRUE,
              cpu |-> [p.cpu EXCEPT
                         !.sr.interrupt_disable = TRUE,
                         !.pc = U32(read_u24(m.bus, U32(BIOS_BASE + int * 3))),
                         !.pending_interrupts = Tail(@),
                         !.cycles = @ + 7],
              bus |-> p.bus]
    ELSE [handled |-> FALSE, cpu |-> m.cpu, bus |-> m.bus]

\* Cpu::handle_interrupts: [handled, cpu, bus]
handle_interrupts(m) ==
    IF m.cpu.pending_interrupts # <<>>
    THEN LET int == m.cpu.pending_interrupts[1]
         IN  IF int # 7 /\ m.cpu.sr.interrupt_disable
             THEN [handled |-> FALSE, cpu |-> m.cpu, bus |-> m.bus]
             ELSE LET vector_addr == U32(BIOS_BASE + int * 3)
                      handler_addr == read_u24(m.bus, vector_addr)
                      p == push_u24(m, m.cpu.pc)
                  IN  [handled |-> TRUE,
                       cpu |-> [p.cpu EXCEPT !.sr.interrupt_disable = TRUE,
                                             !.pc = U32(handler_addr),
                                             !.pending_interrupts = Tail(@),
                                             !.cycles = @ + 7],
                       bus |-> p.bus]
    ELSE [handled |-> FALSE, cpu |-> m.cpu, bus |-> m.bus]

\* an overflowing_add that reports a carry only when the sum exceeds 2^16
overflowing_add_late_carry(p, q) ==
    [result |-> (p + q) % TwoPow16, carry |-> (p + q) > TwoPow16]

\* u16::overflowing_add: the wrapped sum and whether it overflowed
overflowing_add(p, q) ==
    [result |-> (p + q) % TwoPow16, carry |-> (p + q) >= TwoPow16]

\* an overflowing_sub that reports a borrow for equal operands too
overflowing_sub_borrow_on_equal(p, q) ==
    [result |-> (p + TwoPow16 - q) % TwoPow16, borrow |-> p <= q]

\* u16::overflowing_sub: the wrapped difference and whether it borrowed
overflowing_sub(p, q) ==
    [result |-> (p + TwoPow16 - q) % TwoPow16, borrow |-> p < q]

\* the immediate-operand loads and ALU operations share this shape:
\* read imm16 at pc, pc += 2, cycles += 2
Imm16(m) == read_u16(m.bus, m.cpu.pc)

\* Cpu::execute_instruction, entered with pc already past the opcode byte
execute_instruction(m, opcode) ==
    LET c == m.cpu
        b == m.bus
    IN  CASE opcode = 0 ->      \* NOP
            [cpu |-> [c EXCEPT !.cycles = @ + 1], bus |-> b]
          [] opcode = 1 ->      \* LDA #imm16
            [cpu |-> [c EXCEPT !.pc = AddU32(@, 2), !.a = Imm16(m),
                               !.sr = update_zn(@, Imm16(m)), !.cycles = @ + 2],
             bus |-> b]
          [] opcode = 2 ->      \* STA addr24
            [cpu |-> [c EXCEPT !.pc = AddU32(@, 3), !.cycles = @ + 3],
             bus |-> write_u16(b, U32(read_u24(b, c.pc)), c.a)]
          [] opcode = 3 ->      \* LDX #imm16
            [cpu |-> [c EXCEPT !.pc = AddU32(@, 2), !.x = Imm16(m),
                               !.sr = update_zn(@, Imm16(m)), !.cycles = @ + 2],
             bus |-> b]
          [] opcode = 4 ->      \* STX addr24
            [cpu |-> [c EXCEPT !.pc = AddU32(@, 3), !.cycles = @ + 3],
             bus |-> write_u16(b, U32(read_u24(b, c.pc)), c.x)]
          [] opcode = 5 ->      \* LDY #imm16
            [cpu |-> [c EXCEPT !.pc = AddU32(@, 2), !.y = Imm16(m),
                               !.sr = update_zn(@, Imm16(m)), !.cycles = @ + 2],
             bus |-> b]
          [] opcode = 6 ->      \* STY addr24
            [cpu |-> [c EXCEPT !.pc = AddU32(@, 3), !.cycles = @ + 3],
             bus |-> write_u16(b, U32(read_u24(b, c.pc)), c.y)]
          [] opcode = 16 ->     \* ADD #imm16
            LET value == Imm16(m)
                result == overflowing_add(c.a, value).result
                carry == overflowing_add(c.a, value).carry
                ovf == BitAnd(BitAnd(BitXor(c.a, result), BitXor(value, result)),
                              32768) # 0
            IN  [cpu |-> [c EXCEPT !.pc = AddU32(@, 2), !.a = result,
                                   !.sr = update_zn([@ EXCEPT !.carry = carry,
                                                              !.overflow = ovf],
                                                    result),
                                   !.cycles = @ + 2],
                 bus |-> b]
          [] opcode = 17 ->     \* SUB #imm16
            LET value == Imm16(m)
                result == overflowing_sub(c.a, value).result
                borrow == overflowing_sub(c.a, value).borrow
                ovf == BitAnd(BitAnd(BitXor(c.a, value), BitXor(c.a, result)),
                              32768) # 0
            IN  [cpu |-> [c EXCEPT !.pc = AddU32(@, 2), !.a = result,
                                   !.sr = update_zn([@ EXCEPT !.carry = ~borrow,
                                                              !.overflow = ovf],
                                                    result),
                                   !.cycles = @ + 2],
                 bus |-> b]
          [] opcode = 18 ->     \* AND #imm16
            LET result == BitAnd(c.a, Imm16(m))
            IN  [cpu |-> [c EXCEPT !.pc = AddU32(@, 2), !.a = result,
                                   !.sr = update_zn(@, result), !.cycles = @ + 2],
                 bus |-> b]
          [] opcode = 19 ->     \* OR #imm16
            LET result == BitOr(c.a, Imm16(m))
            IN  [cpu |-> [c EXCEPT !.pc = AddU32(@, 2), !.a = result,
                                   !.sr = update_zn(@, result), !.cycles = @ + 2],
                 bus |-> b]
          [] opcode = 20 ->     \* XOR #imm16
            LET result == BitXor(c.a, Imm16(m))
            IN  [cpu |-> [c EXCEPT !.pc = AddU32(@, 2), !.a = result,
                                   !.sr = update_zn(@, result), !.cycles = @ + 2],
                 bus |-> b]
          [] opcode = 32 ->     \* JMP addr24
            [cpu |-> [c EXCEPT !.pc = U32(read_u24(b, c.pc)), !.cycles = @ + 3],
             bus |-> b]
          [] opcode = 33 ->     \* JSR addr24
            LET addr == read_u24(b, c.pc)
                ret == AddU32(c.pc, 3)
                p == push_u24([cpu |-> [c EXCEPT !.pc = ret], bus |-> b], ret)
            IN  [cpu |-> [p.cpu EXCEPT !.pc = U32(addr), !.cycles = @ + 5],
                 bus |-> p.bus]
          [] opcode = 34 ->     \* RTS
            LET p == pop_u24(m)
            IN  [cpu |-> [c EXCEPT !.pc = U32(p.value), !.sp = p.sp,
                                   !.cycles = @ + 4],
                 bus |-> b]
          [] opcode = 48 ->     \* BRA rel8
            [cpu |-> [c EXCEPT !.pc = AddOffset(AddU32(@, 1), read_u8(b, c.pc)),
                               !.cycles = @ + 2],
             bus |-> b]
          [] opcode = 49 ->     \* BEQ rel8
            IF c.sr.zero
            THEN [cpu |-> [c EXCEPT !.pc = AddOffset(AddU32(@, 1), read_u8(b, c.pc)),
                                    !.cycles = @ + 3],
                  bus |-> b]
            ELSE [cpu |-> [c EXCEPT !.pc = AddU32(@, 1), !.cycles = @ + 2],
                  bus |-> b]
          [] opcode = 50 ->     \* BNE rel8
            IF ~c.sr.zero
            THEN [cpu |-> [c EXCEPT !.pc = AddOffset(AddU32(@, 1), read_u8(b, c.pc)),
                                    !.cycles = @ + 3],
                  bus |-> b]
            ELSE [cpu |-> [c EXCEPT !.pc = AddU32(@, 1), !.cycles = @ + 2],
                  bus |-> b]
          [] opcode = 64 ->     \* SEI
            [cpu |-> [c EXCEPT !.sr.interrupt_disable = TRUE, !.cycles = @ + 1],
             bus |-> b]
          [] opcode = 65 ->     \* CLI
            [cpu |-> [c EXCEPT !.sr.interrupt_disable = FALSE, !.cycles = @ + 1],
             bus |-> b]
          [] opcode = 66 ->     \* RTI
            LET p == pop_u24(m)
            IN  [cpu |-> [c EXCEPT !.pc = U32(p.value), !.sp = p.sp,
                                   !.sr.interrupt_disable = FALSE,
                                   !.cycles = @ + 5],
                 bus |-> b]
          [] opcode = 255 ->    \* HLT
            [cpu |-> [c EXCEPT !.halted = TRUE, !.cycles = @ + 1], bus |-> b]
          [] OTHER ->           \* unknown opcode: as NOP
            [cpu |-> [c EXCEPT !.cycles = @ + 1], bus |-> b]

\* a Cpu::step that looks at the pending interrupts before the halted flag
step_wakes_on_interrupt(m) ==
    LET h == handle_interrupts(m)
    IN  IF h.handled THEN [cpu |-> h.cpu, bus |-> h.bus]
        ELSE IF m.cpu.halted
            THEN [cpu |-> [m.cpu EXCEPT !.cycles = @ + 1], bus |-> m.bus]
        ELSE execute_instruction(
                 [cpu |-> [m.cpu EXCEPT !.pc = AddU32(@, 1)], bus |-> m.bus],
                 read_u8(m.bus, m.cpu.pc))

\* a Cpu::step that charges one more cycle for fetching the opcode
step_charges_fetch(m) ==
    IF m.cpu.halted
    THEN [cpu |-> [m.cpu EXCEPT !.cycles = @ + 1], bus |-> m.bus]
    ELSE LET h == handle_interrupts(m)
         IN  IF h.handled THEN [cpu |-> h.cpu, bus |-> h.bus]
             ELSE LET opcode == read_u8(m.bus, m.cpu.pc)
                      r == execute_instruction(
                               [cpu |-> [m.cpu EXCEPT !.pc = AddU32(@, 1)],
                                bus |-> m.bus],
                               opcode)
                  IN  [r EXCEPT !.cpu.cycles = @ + 1]

\* a Cpu::step that halts the CPU on an opcode byte between RTI and HLT
step_faults_on_unknown(m) ==
    IF m.cpu.halted
    THEN [cpu |-> [m.cpu EXCEPT !.cycles = @ + 1], bus |-> m.bus]
    ELSE LET h == handle_interrupts(m)
         IN  IF h.handled THEN [cpu |-> h.cpu, bus |-> h.bus]
             ELSE LET opcode == read_u8(m.bus, m.cpu.pc)
                      r == execute_instruction(
                               [cpu |-> [m.cpu EXCEPT !.pc = AddU32(@, 1)],
                                bus |-> m.bus],
                               opcode)
                  IN  IF opcode > 66 /\ opcode < 255
                      THEN [r EXCEPT !.cpu.halted = TRUE]
                      ELSE r

\* a Cpu::step that spends no cycle while the CPU is halted
step_halted_idle(m) ==
    IF m.cpu.halted
    THEN [cpu |-> m.cpu, bus |-> m.bus]
    ELSE LET h == handle_interrupts(m)
         IN  IF h.handled THEN [cpu |-> h.cpu, bus |-> h.bus]
             ELSE LET opcode == read_u8(m.bus, m.cpu.pc)
                  IN  execute_instruction(
                          [cpu |-> [m.cpu EXCEPT !.pc = AddU32(@, 1)], bus |-> m.bus],
                          opcode)

\* Cpu::step on the machine m = [cpu, bus]
step(m) ==
    IF m.cpu.halted
    THEN [cpu |-> [m.cpu EXCEPT !.cycles = @ + 1], bus |-> m.bus]
    ELSE LET h == handle_interrupts(m)
         IN  IF h.handled THEN [cpu |-> h.cpu, bus |-> h.bus]
             ELSE LET opcode == read_u8(m.bus, m.cpu.pc)
                  IN  execute_instruction(
                          [cpu |-> [m.cpu EXCEPT !.pc = AddU32(@, 1)], bus |-> m.bus],
                          opcode)

\* ------------------------------------------------------------------ Vdp
CYCLES_PER_SCANLINE == 1024
SCANLINES_PER_FRAME == 288
VBLANK_START == 240
HBLANK_START == 768
VDP_REGS_LEN == 256

\* bitflags: the union of the declared bits of each flag type
DisplayControl_all == 14111
DisplayControl_ENABLE == 1
DisplayControl_BG0_ENABLE == 2
DisplayControl_BG1_ENABLE == 4
DisplayControl_SPRITE_ENABLE == 8
DisplayStatus_VBLANK == 1
DisplayStatus_HBLANK == 2
DisplayStatus_DMA_BUSY == 8
BgControl_all == 4081
SpriteControl_all == 3
IrqFlags_all == 15
IrqFlags_DMA_DONE == 8

\* bitflags contains / set / insert / remove / from_bits_truncate
FlagContains(bits, flag) == BitAnd(bits, flag) = flag
FlagInsert(bits, flag) == BitOr(bits, flag)
FlagRemove(bits, flag) == bits - BitAnd(bits, flag)
FlagSet(bits, flag, on) == IF on THEN FlagInsert(bits, flag) ELSE FlagRemove(bits, flag)
from_bits_truncate(all, value) == BitAnd(value, all)

\* The framebuffer is held as the colour render_frame cleared it to and the
\* layer passes that ran over it, in order.
Vdp_new ==
    [vram |-> EmptyMem, cram |-> EmptyMem, regs |-> EmptyMem,
     display_control |-> 0, display_status |-> 0, v_count |-> 0, h_count |-> 0,
     bg0_control |-> 0, bg0_scroll_x |-> 0, bg0_scroll_y |-> 0,
     bg0_affine |-> <<256, 0, 0, 256>>, bg0_ref_x |-> 0, bg0_ref_y |-> 0,
     bg0_tilemap_addr |-> 0,
     bg1_control |-> 0, bg1_scroll_x |-> 0, bg1_scroll_y |-> 0,
     bg1_tilemap_addr |-> 0,
     sprite_control |-> 0, sprite_oam_addr |-> 0,
     dma_source |-> 0, dma_dest |-> 0, dma_length |-> 0, dma_active |-> FALSE,
     irq_enable |-> 0, irq_status |-> 0, irq_line_compare |-> 0,
     palette_index |-> 0, palette_data |-> 0, backdrop_color |-> 0,
     framebuffer |-> [clear |-> 0, passes |-> <<>>],
     cycles |-> 0, frame_count |-> 0]

\* an rgb666_to_rgb888 that does not mask the channels to 6 bits
rgb666_to_rgb888_unmasked(r, g, b) ==
    LET e(c) == BitOr((c * 4) % TwoPow8, c \div 16)
    IN  e(r) * TwoPow16 + e(g) * TwoPow8 + e(b)

\* Vdp::rgb666_to_rgb888
rgb666_to_rgb888(r, g, b) ==
    LET e(c) == BitOr((BitAnd(c, 63) * 4) % TwoPow8, BitAnd(c, 63) \div 16)
    IN  e(r) * TwoPow16 + e(g) * TwoPow8 + e(b)

\* Vdp::read_backdrop_color
read_backdrop_color(v) ==
    rgb666_to_rgb888(MemGet(v.cram, 0), MemGet(v.cram, 1), MemGet(v.cram, 2))

\* Vdp::render_frame: clear to the backdrop, then BG1, BG0, sprites
render_frame(v) ==
    LET p1 == IF FlagContains(v.display_control, DisplayControl_BG1_ENABLE)
              THEN <<"bg1">> ELSE <<>>
        p0 == IF FlagContains(v.display_control, DisplayControl_BG0_ENABLE)
              THEN <<"bg0">> ELSE <<>>
        ps == IF FlagContains(v.display_control, DisplayControl_SPRITE_ENABLE)
              THEN <<"sprites">> ELSE <<>>
    IN  [v EXCEPT !.framebuffer = [clear |-> read_backdrop_color(v),
                                   passes |-> p1 \o p0 \o ps]]

\* a Vdp::step that sets the status bits from the counters of the previous step
Vdp_step_stale_status(v, cycles) ==
    LET cyc == v.cycles + cycles
        vc == (cyc \div CYCLES_PER_SCANLINE) % SCANLINES_PER_FRAME
        hc == cyc % CYCLES_PER_SCANLINE
        st == FlagSet(FlagSet(v.display_status, DisplayStatus_VBLANK,
                              v.v_count >= VBLANK_START),
                      DisplayStatus_HBLANK, v.h_count >= HBLANK_START)
        entered_vblank == v.v_count < VBLANK_START /\ vc >= VBLANK_START
        v1 == [v EXCEPT !.cycles = cyc, !.v_count = vc, !.h_count = hc,
                        !.display_status = st]
        v2 == IF entered_vblank
              THEN LET v3 == [v1 EXCEPT !.frame_count = @ + 1]
                   IN  IF FlagContains(v3.display_control, DisplayControl_ENABLE)
                       THEN render_frame(v3) ELSE v3
              ELSE v1
    IN  [entered_vblank |-> entered_vblank, vdp |-> v2]

\* Vdp::step: [entered_vblank, vdp]
Vdp_step(v, cycles) ==
    LET cyc == v.cycles + cycles
        old_v == v.v_count
        scanline_cycles == cyc \div CYCLES_PER_SCANLINE
        vc == scanline_cycles % SCANLINES_PER_FRAME
        hc == cyc % CYCLES_PER_SCANLINE
        st == FlagSet(FlagSet(v.display_status, DisplayStatus_VBLANK,
                              vc >= VBLANK_START),
                      DisplayStatus_HBLANK, hc >= HBLANK_START)
        entered_vblank == old_v < VBLANK_START /\ vc >= VBLANK_START
        v1 == [v EXCEPT !.cycles = cyc, !.v_count = vc, !.h_count = hc,
                        !.display_status = st]
        v2 == IF entered_vblank
              THEN LET v3 == [v1 EXCEPT !.frame_count = @ + 1]
                   IN  IF FlagContains(v3.display_control, DisplayControl_ENABLE)
                       THEN render_frame(v3) ELSE v3
              ELSE v1
    IN  [entered_vblank |-> entered_vblank, vdp |-> v2]

\* Vdp::read_vram / write_vram / read_cram / write_cram
read_vram(v, offset) == MemGet(v.vram, offset % VRAM_SIZE)
write_vram(v, offset, value) == [v EXCEPT !.vram = MemSet(@, offset % VRAM_SIZE, value)]
read_cram(v, offset) == MemGet(v.cram, offset % CRAM_SIZE)
write_cram(v, offset, value) == [v EXCEPT !.cram = MemSet(@, offset % CRAM_SIZE, value)]

\* Vdp::set_backdrop_color
set_backdrop_color(v, r, g, b) ==
    [v EXCEPT !.cram = MemSet(MemSet(MemSet(@, 0, BitAnd(r, 63)), 1, BitAnd(g, 63)),
                              2, BitAnd(b, 63))]

\* Vdp::start_dma: busy is raised and lowered within the call
start_dma(v) ==
    [v EXCEPT !.dma_active = FALSE,
              !.display_status = FlagRemove(FlagInsert(@, DisplayStatus_DMA_BUSY),
                                            DisplayStatus_DMA_BUSY)]

\* Vdp::read_reg
read_reg(v, offset) ==
    CASE offset = 0 -> v.display_control
      [] offset = 2 -> v.display_status
      [] offset = 4 -> v.v_count
      [] offset = 6 -> v.h_count
      [] offset = 16 -> v.bg0_control
      [] offset = 18 -> v.bg0_scroll_x
      [] offset = 20 -> v.bg0_scroll_y
      [] offset = 22 -> v.bg0_affine[1]
      [] offset = 24 -> v.bg0_affine[2]
      [] offset = 26 -> v.bg0_affine[3]
      [] offset = 28 -> v.bg0_affine[4]
      [] offset = 30 -> v.bg0_ref_x % TwoPow16
      [] offset = 32 -> (v.bg0_ref_x \div TwoPow16) % TwoPow8
      [] offset = 34 -> v.bg0_ref_y % TwoPow16
      [] offset = 36 -> (v.bg0_ref_y \div TwoPow16) % TwoPow8
      [] offset = 38 -> v.bg0_tilemap_addr % TwoPow16
      [] offset = 48 -> v.bg1_control
      [] offset = 50 -> v.bg1_scroll_x
      [] offset = 52 -> v.bg1_scroll_y
      [] offset = 54 -> v.bg1_tilemap_addr % TwoPow16
      [] offset = 80 -> v.sprite_control
      [] offset = 82 -> v.sprite_oam_addr
      [] offset = 112 -> v.dma_source % TwoPow16
      [] offset = 114 -> (v.dma_source \div TwoPow16) % TwoPow8
      [] offset = 116 -> v.dma_dest % TwoPow16
      [] offset = 118 -> (v.dma_dest \div TwoPow16) % TwoPow8
      [] offset = 120 -> v.dma_length
      [] offset = 122 -> 0
      [] offset = 128 -> v.irq_enable
      [] offset = 130 -> v.irq_status
      [] offset = 132 -> v.irq_line_compare
      [] offset = 144 -> v.palette_index
      [] offset = 146 -> v.palette_data
      [] offset = 148 -> v.backdrop_color
      [] OTHER ->
            LET idx == offset % VDP_REGS_LEN
            IN  IF idx + 1 < VDP_REGS_LEN
                THEN MemGet(v.regs, idx) + TwoPow8 * MemGet(v.regs, idx + 1)
                ELSE 255

\* Vdp::write_reg; the i16 fields are held as their u16 bit patterns
write_reg(v, offset, value) ==
    CASE offset = 0 -> [v EXCEPT !.display_control =
                                     from_bits_truncate(DisplayControl_all, value)]
      [] offset = 4 -> v
      [] offset = 6 -> v
      [] offset = 16 -> [v EXCEPT !.bg0_control =
                                      from_bits_truncate(BgControl_all, value)]
      [] offset = 18 -> [v EXCEPT !.bg0_scroll_x = value]
      [] offset = 20 -> [v EXCEPT !.bg0_scroll_y = value]
      [] offset = 22 -> [v EXCEPT !.bg0_affine[1] = value]
      [] offset = 24 -> [v EXCEPT !.bg0_affine[2] = value]
      [] offset = 26 -> [v EXCEPT !.bg0_affine[3] = value]
      [] offset = 28 -> [v EXCEPT !.bg0_affine[4] = value]
      [] offset = 30 -> [v EXCEPT !.bg0_ref_x = (@ \div TwoPow16) * TwoPow16 + value]
      [] offset = 32 -> [v EXCEPT !.bg0_ref_x = (@ % TwoPow16)
                                                + (value % TwoPow8) * TwoPow16]
      [] offset = 34 -> [v EXCEPT !.bg0_ref_y = (@ \div TwoPow16) * TwoPow16 + value]
      [] offset = 36 -> [v EXCEPT !.bg0_ref_y = (@ % TwoPow16)
                                                + (value % TwoPow8) * TwoPow16]
      [] offset = 38 -> [v EXCEPT !.bg0_tilemap_addr = value]
      [] offset = 48 -> [v EXCEPT !.bg1_control =
                                      from_bits_truncate(BgControl_all, value)]
      [] offset = 50 -> [v EXCEPT !.bg1_scroll_x = value]
      [] offset = 52 -> [v EXCEPT !.bg1_scroll_y = value]
      [] offset = 54 -> [v EXCEPT !.bg1_tilemap_addr = value]
      [] offset = 80 -> [v EXCEPT !.sprite_control =
                                      from_bits_truncate(SpriteControl_all, value)]
      [] offset = 82 -> [v EXCEPT !.sprite_oam_addr = value]
      [] offset = 112 -> [v EXCEPT !.dma_source = (@ \div TwoPow16) * TwoPow16 + value]
      [] offset = 114 -> [v EXCEPT !.dma_source = (@ % TwoPow16)
                                                  + (value % TwoPow8) * TwoPow16]
      [] offset = 116 -> [v EXCEPT !.dma_dest = (@ \div TwoPow16) * TwoPow16 + value]
      [] offset = 118 -> [v EXCEPT !.dma_dest = (@ % TwoPow16)
                                                + (value % TwoPow8) * TwoPow16]
      [] offset = 120 -> [v EXCEPT !.dma_length = value]
      [] offset = 122 -> IF BitAnd(value, 32768) # 0 THEN start_dma(v) ELSE v
      [] offset = 128 -> [v EXCEPT !.irq_enable =
                                       from_bits_truncate(IrqFlags_all, value)]
      [] offset = 130 -> [v EXCEPT !.irq_status =
                              FlagRemove(@, from_bits_truncate(IrqFlags_all, value))]
      [] offset = 132 -> [v EXCEPT !.irq_line_compare = value]
      [] offset = 144 -> [v EXCEPT !.palette_index = value % TwoPow8]
      [] offset = 146 ->
            write_cram([v EXCEPT !.palette_data = value % TwoPow8],
                       v.palette_index * 3, BitAnd(value % TwoPow8, 63))
      [] offset = 148 ->
            set_backdrop_color([v EXCEPT !.backdrop_color = value],
                               BitAnd(value, 63) % TwoPow8,
                               BitAnd(value \div 64, 63) % TwoPow8,
                               BitAnd(value \div 4096, 63) % TwoPow8)
      [] OTHER ->
            LET idx == offset % VDP_REGS_LEN
            IN  IF idx + 1 < VDP_REGS_LEN
                THEN [v EXCEPT !.regs = MemSet(MemSet(@, idx, value % TwoPow8),
                                               idx + 1, value \div TwoPow8)]
                ELSE v

\* Vdp::in_vblank
in_vblank(v) == FlagContains(v.display_status, DisplayStatus_VBLANK)

\* ------------------------------------------------------------------ Apu
APU_CHANNEL_COUNT == 6
CHANNEL_STRIDE == 16
STATUS_OFFSET == APU_CHANNEL_COUNT * CHANNEL_STRIDE
GLOBAL_CONTROL_OFFSET == STATUS_OFFSET + 1
GLOBAL_VERSION_OFFSET == STATUS_OFFSET + 2
SUPPORTED_VERSION == 16
ApuStatus_BUFFER_EMPTY == 1
ApuStatus_CHANNEL_ACTIVE == 2
EffectMask_all == 7

\* ChannelState::default(); voice is held as its bits, sample_address as the u32
\* it is (its top byte is never written and stays 0)
ChannelState_default ==
    [enabled |-> FALSE, voice |-> 0, volume |-> 255, pan |-> 128, frequency |-> 0,
     effect |-> 0, sample_address |-> 0, sample_length |-> 0, buffer_empty |-> TRUE]

\* Apu::new(); channels are indexed 0..5
Apu_new ==
    [channels |-> [i \in 0..(APU_CHANNEL_COUNT - 1) |-> ChannelState_default],
     status |-> ApuStatus_BUFFER_EMPTY, global_control |-> 0,
     buffer_empty_latch |-> FALSE]

\* Apu::channel_index: [some, idx, reg]
channel_index(offset) ==
    IF offset < STATUS_OFFSET /\ offset \div CHANNEL_STRIDE < APU_CHANNEL_COUNT
    THEN [some |-> TRUE, idx |-> offset \div CHANNEL_STRIDE,
          reg |-> offset % CHANNEL_STRIDE]
    ELSE [some |-> FALSE, idx |-> 0, reg |-> 0]

\* Apu::update_status
update_status(apu) ==
    [apu EXCEPT !.status =
        (IF \E i \in DOMAIN apu.channels : apu.channels[i].enabled
         THEN ApuStatus_CHANNEL_ACTIVE ELSE 0)
        + (IF \E i \in DOMAIN apu.channels :
                  apu.channels[i].buffer_empty /\ apu.channels[i].enabled
           THEN ApuStatus_BUFFER_EMPTY ELSE 0)]

\* the sample-length arms (11 and 12) of Apu::write_channel, given the new length
SetSampleLength(apu, idx, len) ==
    LET ch == apu.channels[idx]
    IN  IF len = 0 /\ ch.enabled
        THEN [apu EXCEPT !.channels[idx].sample_length = len,
                         !.channels[idx].buffer_empty = TRUE,
                         !.buffer_empty_latch = TRUE]
        ELSE IF len # 0
            THEN [apu EXCEPT !.channels[idx].sample_length = len,
                             !.channels[idx].buffer_empty = FALSE]
        ELSE [apu EXCEPT !.channels[idx].sample_length = len]

\* Apu::write_channel
write_channel(apu, idx, reg, value) ==
    LET ch == apu.channels[idx]
        written ==
            CASE reg = 0 ->
                    LET en == (value % 2 = 1)
                    IN  [apu EXCEPT !.channels[idx] =
                            [ch EXCEPT !.enabled = en,
                                       !.voice = (value \div 2) % 4,
                                       !.buffer_empty =
                                           IF en THEN ch.sample_length = 0 ELSE @]]
              [] reg = 1 -> [apu EXCEPT !.channels[idx].volume = value]
              [] reg = 2 -> [apu EXCEPT !.channels[idx].pan = value]
              [] reg = 3 ->
                    IF value % 2 = 1
                    THEN [apu EXCEPT !.channels[idx].buffer_empty = FALSE]
                    ELSE apu
              [] reg = 4 ->
                    [apu EXCEPT !.channels[idx].frequency =
                        (@ \div TwoPow8) * TwoPow8 + value]
              [] reg = 5 ->
                    [apu EXCEPT !.channels[idx].frequency =
                        (@ % TwoPow8) + value * TwoPow8]
              [] reg = 6 ->
                    [apu EXCEPT !.channels[idx].effect =
                        from_bits_truncate(EffectMask_all, value)]
              [] reg = 8 ->
                    [apu EXCEPT !.channels[idx].sample_address =
                        (@ \div TwoPow8) * TwoPow8 + value]
              [] reg = 9 ->
                    [apu EXCEPT !.channels[idx].sample_address =
                        (@ \div TwoPow16) * TwoPow16 + value * TwoPow8
                            + (@ % TwoPow8)]
              [] reg = 10 ->
                    [apu EXCEPT !.channels[idx].sample_address =
                        value * TwoPow16 + (@ % TwoPow16)]
              [] reg = 11 ->
                    SetSampleLength(apu, idx,
                                    (ch.sample_length % TwoPow8) + value * TwoPow8)
              [] reg = 12 ->
                    SetSampleLength(apu, idx,
                                    (ch.sample_length \div TwoPow8) * TwoPow8 + value)
              [] OTHER -> apu
    IN  update_status(written)

\* Apu::read_channel
read_channel(apu, idx, reg) ==
    LET ch == apu.channels[idx]
    IN  CASE reg = 0 -> (IF ch.enabled THEN 1 ELSE 0) + 2 * ch.voice
          [] reg = 1 -> ch.volume
          [] reg = 2 -> ch.pan
          [] reg = 3 -> (IF ch.buffer_empty THEN 1 ELSE 0)
                            + (IF ch.enabled THEN 2 ELSE 0)
          [] reg = 4 -> ch.frequency % TwoPow8
          [] reg = 5 -> ch.frequency \div TwoPow8
          [] reg = 6 -> ch.effect
          [] reg = 8 -> ch.sample_address % TwoPow8
          [] reg = 9 -> (ch.sample_address \div TwoPow8) % TwoPow8
          [] reg = 10 -> (ch.sample_address \div TwoPow16) % TwoPow8
          [] reg = 11 -> ch.sample_length \div TwoPow8
          [] reg = 12 -> ch.sample_length % TwoPow8
          [] OTHER -> 255

\* Apu::read_register
read_register(apu, offset) ==
    LET ci == channel_index(offset)
    IN  IF ci.some THEN read_channel(apu, ci.idx, ci.reg)
        ELSE CASE offset = STATUS_OFFSET -> apu.status
               [] offset = GLOBAL_CONTROL_OFFSET -> apu.global_control
               [] offset = GLOBAL_VERSION_OFFSET -> SUPPORTED_VERSION
               [] OTHER -> 255

\* Apu::write_register
write_register(apu, offset, value) ==
    LET ci == channel_index(offset)
    IN  IF ci.some THEN write_channel(apu, ci.idx, ci.reg, value)
        ELSE CASE offset = STATUS_OFFSET ->
                    IF value % 2 = 1
                    THEN [apu EXCEPT
                            !.buffer_empty_latch = FALSE,
                            !.channels = [i \in DOMAIN @ |->
                                             [@[i] EXCEPT !.buffer_empty = FALSE]]]
                    ELSE apu
               [] offset = GLOBAL_CONTROL_OFFSET ->
                    [apu EXCEPT !.global_control = value]
               [] OTHER -> apu

\* one iteration of the channel loop of Apu::step
StepChannel(ch, ticks) ==
    IF ~ch.enabled THEN ch
    ELSE IF ch.sample_length > 0
        THEN LET consumed == Min(ticks, ch.sample_length)
                 len == ch.sample_length - consumed
             IN  [ch EXCEPT !.sample_length = len,
                            !.buffer_empty = IF len = 0 THEN TRUE ELSE @]
        ELSE [ch EXCEPT !.buffer_empty = TRUE]

\* an Apu::step whose tick count is not clamped to at least 1
Apu_step_unclamped(apu, cycles) ==
    IF cycles = 0 THEN apu
    ELSE LET ticks == cycles \div 64
             stepped == [i \in DOMAIN apu.channels |->
                            StepChannel(apu.channels[i], ticks)]
             saw_empty == \E i \in DOMAIN stepped :
                              stepped[i].enabled /\ stepped[i].sample_length = 0
         IN  update_status([apu EXCEPT !.channels = stepped,
                                       !.buffer_empty_latch =
                                           IF saw_empty THEN TRUE ELSE @])

\* Apu::step
Apu_step(apu, cycles) ==
    IF cycles = 0 THEN apu
    ELSE LET ticks == IF cycles \div 64 > 1 THEN cycles \div 64 ELSE 1
             stepped == [i \in DOMAIN apu.channels |->
                            StepChannel(apu.channels[i], ticks)]
             saw_empty == \E i \in DOMAIN stepped :
                              stepped[i].enabled /\ stepped[i].sample_length = 0
         IN  update_status([apu EXCEPT !.channels = stepped,
                                       !.buffer_empty_latch =
                                           IF saw_empty THEN TRUE ELSE @])

\* Apu::take_buffer_empty: the returned flag and the Apu afterwards
take_buffer_empty(apu) ==
    [ready |-> apu.buffer_empty_latch,
     apu |-> [apu EXCEPT !.buffer_empty_latch = FALSE]]

\* ------------------------------------------------------------------ Vlu
VECTOR_REGISTER_COUNT == 8
MATRIX_REGISTER_COUNT == 4

\* f32 values are held as integers: every register value of the runs is an
\* integer of small magnitude, on which f32 products, sums and differences are
\* exact
Vec3_new(x, y, z) == [x |-> x, y |-> y, z |-> z]
Vec3_default == Vec3_new(0, 0, 0)

\* Vec3::dot: x*rx + (y*ry + z*rz), fused
dot(v, rhs) == v.x * rhs.x + (v.y * rhs.y + v.z * rhs.z)

\* Vec3::cross
cross(v, rhs) ==
    Vec3_new(v.y * rhs.z - v.z * rhs.y,
             v.z * rhs.x - v.x * rhs.z,
             v.x * rhs.y - v.y * rhs.x)

\* f32::sqrt on the squares the runs produce
Sqrt(n) == CHOOSE r \in 0..n : r * r = n

\* Vec3::normalize without fast-math: magnitude_sq <= f32::EPSILON is
\* magnitude_sq = 0 on integers; otherwise each component is multiplied by
\* 1.0 / sqrt(magnitude_sq), which is exact when the length is a power of two
\* dividing every component, as it is for the vectors of the runs
normalize(v) ==
    IF dot(v, v) <= 0 THEN Vec3_default
    ELSE Vec3_new(v.x \div Sqrt(dot(v, v)), v.y \div Sqrt(dot(v, v)),
                  v.z \div Sqrt(dot(v, v)))

\* a matrix is its three rows
Mat3_default == <<Vec3_default, Vec3_default, Vec3_default>>

\* Mat3::mul_vec
mul_vec(mat, vec) == Vec3_new(dot(mat[1], vec), dot(mat[2], vec), dot(mat[3], vec))

\* Vlu::new
Vlu_new ==
    [vectors |-> [i \in 0..(VECTOR_REGISTER_COUNT - 1) |-> Vec3_default],
     matrices |-> [i \in 0..(MATRIX_REGISTER_COUNT - 1) |-> Mat3_default],
     last_scalar |-> 0]

\* Vlu::set_vector and Vlu::set_matrix: an index out of range is an error and
\* nothing is stored
set_vector(vlu, index, value) ==
    IF index < VECTOR_REGISTER_COUNT THEN [vlu EXCEPT !.vectors[index] = value] ELSE vlu
set_matrix(vlu, index, value) ==
    IF index < MATRIX_REGISTER_COUNT THEN [vlu EXCEPT !.matrices[index] = value] ELSE vlu

\* the jobs of VluJob; Dot has no destination and only Transform a matrix
Transform(dest, vec, matrix) == [kind |-> "Transform", dest |-> dest, vec |-> vec, matrix |-> matrix]
Dot(a, b) == [kind |-> "Dot", a |-> a, b |-> b]
Cross(dest, a, b) == [kind |-> "Cross", dest |-> dest, a |-> a, b |-> b]
Normalize(dest, src) == [kind |-> "Normalize", dest |-> dest, src |-> src]

\* the values compute returns: Err(VluError) and Ok(VluResult)
InvalidVectorRegister(index) == [ok |-> FALSE, error |-> "InvalidVectorRegister", index |-> index]
InvalidMatrixRegister(index) == [ok |-> FALSE, error |-> "InvalidMatrixRegister", index |-> index]
VluResult_Vector(v) == [ok |-> TRUE, kind |-> "Vector", value |-> v]
VluResult_Scalar(s) == [ok |-> TRUE, kind |-> "Scalar", value |-> s]

\* the match of Vlu::compute: the result and the Vlu it leaves; each `?` returns
\* the error at once, in the order the arm looks its registers up
ComputeJob(vlu, job) ==
    CASE job.kind = "Transform" ->
            IF job.vec >= VECTOR_REGISTER_COUNT
            THEN [result |-> InvalidVectorRegister(job.vec), vlu |-> vlu]
            ELSE IF job.matrix >= MATRIX_REGISTER_COUNT
            THEN [result |-> InvalidMatrixRegister(job.matrix), vlu |-> vlu]
            ELSE IF job.dest >= VECTOR_REGISTER_COUNT
            THEN [result |-> InvalidVectorRegister(job.dest), vlu |-> vlu]
            ELSE [result |-> VluResult_Vector(mul_vec(vlu.matrices[job.matrix], vlu.vectors[job.vec])),
                  vlu |-> [vlu EXCEPT !.vectors[job.dest] =
                               mul_vec(vlu.matrices[job.matrix], vlu.vectors[job.vec])]]
      [] job.kind = "Dot" ->
            IF job.a >= VECTOR_REGISTER_COUNT
            THEN [result |-> InvalidVectorRegister(job.a), vlu |-> vlu]
            ELSE IF job.b >= VECTOR_REGISTER_COUNT
            THEN [result |-> InvalidVectorRegister(job.b), vlu |-> vlu]
            ELSE [result |-> VluResult_Scalar(dot(vlu.vectors[job.a], vlu.vectors[job.b])),
                  vlu |-> [vlu EXCEPT !.last_scalar =
                               dot(vlu.vectors[job.a], vlu.vectors[job.b])]]
      [] job.kind = "Cross" ->
            IF job.a >= VECTOR_REGISTER_COUNT
            THEN [result |-> InvalidVectorRegister(job.a), vlu |-> vlu]
            ELSE IF job.b >= VECTOR_REGISTER_COUNT
            THEN [result |-> InvalidVectorRegister(job.b), vlu |-> vlu]
            ELSE IF job.dest >= VECTOR_REGISTER_COUNT
            THEN [result |-> InvalidVectorRegister(job.dest), vlu |-> vlu]
            ELSE [result |-> VluResult_Vector(cross(vlu.vectors[job.a], vlu.vectors[job.b])),
                  vlu |-> [vlu EXCEPT !.vectors[job.dest] =
                               cross(vlu.vectors[job.a], vlu.vectors[job.b])]]
      [] job.kind = "Normalize" ->
            IF job.src >= VECTOR_REGISTER_COUNT
            THEN [result |-> InvalidVectorRegister(job.src), vlu |-> vlu]
            ELSE IF job.dest >= VECTOR_REGISTER_COUNT
            THEN [result |-> InvalidVectorRegister(job.dest), vlu |-> vlu]
            ELSE [result |-> VluResult_Vector(normalize(vlu.vectors[job.src])),
                  vlu |-> [vlu EXCEPT !.vectors[job.dest] = normalize(vlu.vectors[job.src])]]

\* a compute that does not raise VLU_DONE
compute_silent(vlu, cpu, job) ==
    [result |-> ComputeJob(vlu, job).result, vlu |-> ComputeJob(vlu, job).vlu, cpu |-> cpu]

\* a compute that raises VLU_DONE whether or not the job succeeded
compute_raises_on_error(vlu, cpu, job) ==
    [result |-> ComputeJob(vlu, job).result, vlu |-> ComputeJob(vlu, job).vlu,
     cpu |-> request_interrupt(cpu, 4)]

\* Vlu::compute: the job, then cpu.request_interrupt(4) when it succeeded
compute(vlu, cpu, job) ==
    [result |-> ComputeJob(vlu, job).result, vlu |-> ComputeJob(vlu, job).vlu,
     cpu |-> IF ComputeJob(vlu, job).result.ok THEN request_interrupt(cpu, 4) ELSE cpu]

\* ------------------------------------------------------------------ Nexel24
CPU_CLOCK_HZ == 18432000
TARGET_FPS == 60
CYCLES_PER_FRAME == CPU_CLOCK_HZ \div TARGET_FPS
VDP_IO_BASE == 1048576
VDP_IO_SIZE == 16384

\* the emulator e = [cpu, bus, vdp, vlu, apu, frame_count, target_cycles_per_frame]
Nexel24_new ==
    [cpu |-> Cpu_new, bus |-> Bus24_new, vdp |-> Vdp_new, vlu |-> Vlu_new,
     apu |-> Apu_new, frame_count |-> 0, target_cycles_per_frame |-> CYCLES_PER_FRAME]

\* Nexel24::reset
Nexel24_reset(e) == [e EXCEPT !.cpu = reset(e.cpu, e.bus), !.frame_count = 0]

\* Nexel24::load_bios
Nexel24_load_bios(e, data) == [e EXCEPT !.bus = load_bios(@, data)]

\* Nexel24::step: the CPU steps on the Bus, the VDP advances by 1
Nexel24_step_with(e, m) ==
    [e EXCEPT !.cpu = m.cpu, !.bus = m.bus, !.vdp = Vdp_step(e.vdp, 1).vdp]
Nexel24_step(e) == Nexel24_step_with(e, step([cpu |-> e.cpu, bus |-> e.bus]))

\* the loop condition and one iteration of the loop of Nexel24::step_frame
FrameLoopCond(e, target_cycles) == e.cpu.cycles < target_cycles /\ ~e.cpu.halted
FrameLoopAdvance(e, m) ==
    [e EXCEPT !.cpu = m.cpu, !.bus = m.bus,
              !.vdp = Vdp_step(e.vdp, m.cpu.cycles - e.cpu.cycles).vdp]
FrameLoopBody(e) == FrameLoopAdvance(e, step([cpu |-> e.cpu, bus |-> e.bus]))

\* `while cond { body }` run for at most n iterations, by halving n so that the
\* evaluation depth stays logarithmic
RECURSIVE FrameLoop(_, _, _)
FrameLoop(e, target_cycles, n) ==
    IF n = 0 \/ ~FrameLoopCond(e, target_cycles) THEN e
    ELSE IF n = 1 THEN FrameLoopBody(e)
    ELSE FrameLoop(FrameLoop(e, target_cycles, n \div 2), target_cycles, n - n \div 2)

\* a step_frame whose target is the frame length, not the cycle counter at
\* entry plus the frame length
step_frame_absolute_target(e) ==
    LET target_cycles == e.target_cycles_per_frame
        done == FrameLoop(e, target_cycles, e.target_cycles_per_frame)
    IN  [done EXCEPT !.frame_count = @ + 1]

\* Nexel24::step_frame.  Every iteration adds at least one cycle, so the loop
\* ends within target_cycles_per_frame iterations.
step_frame(e) ==
    LET start_cycles == e.cpu.cycles
        target_cycles == start_cycles + e.target_cycles_per_frame
        done == FrameLoop(e, target_cycles, e.target_cycles_per_frame)
    IN  [done EXCEPT !.frame_count = @ + 1]

\* Nexel24::run_frames: `for _ in 0..num_frames { step_frame(); if halted { break } }`
RECURSIVE run_frames(_, _)
run_frames(e, num_frames) ==
    IF num_frames = 0 THEN e
    ELSE LET f == step_frame(e)
         IN  IF f.cpu.halted THEN f ELSE run_frames(f, num_frames - 1)

\* Nexel24::read_memory
read_memory(e, addr) ==
    LET a == addr.lo
    IN  IF a >= VDP_IO_BASE /\ a < VDP_IO_BASE + VDP_IO_SIZE
        THEN LET offset == a - VDP_IO_BASE
             IN  IF BitAnd(offset, 1) = 0
                 THEN read_reg(e.vdp, offset) % TwoPow8
                 ELSE (read_reg(e.vdp, offset - 1) \div TwoPow8) % TwoPow8
        ELSE IF a >= VRAM_BASE /\ a < VRAM_BASE + VRAM_SIZE
            THEN read_vram(e.vdp, a - VRAM_BASE)
        ELSE IF a >= CRAM_BASE /\ a < CRAM_BASE + CRAM_SIZE
            THEN read_cram(e.vdp, a - CRAM_BASE)
        ELSE read_u8(e.bus, U32(a))

\* Nexel24::write_memory
write_memory(e, addr, value) ==
    LET a == addr.lo
    IN  IF a >= VDP_IO_BASE /\ a < VDP_IO_BASE + VDP_IO_SIZE
        THEN LET offset == a - VDP_IO_BASE
             IN  IF BitAnd(offset, 1) = 0
                 THEN [e EXCEPT !.vdp = write_reg(@, offset,
                           (read_reg(@, offset) \div TwoPow8) * TwoPow8 + value)]
                 ELSE [e EXCEPT !.vdp = write_reg(@, offset - 1,
                           (read_reg(@, offset - 1) % TwoPow8) + value * TwoPow8)]
        ELSE IF a >= VRAM_BASE /\ a < VRAM_BASE + VRAM_SIZE
            THEN [e EXCEPT !.vdp = write_vram(@, a - VRAM_BASE, value)]
        ELSE IF a >= CRAM_BASE /\ a < CRAM_BASE + CRAM_SIZE
            THEN [e EXCEPT !.vdp = write_cram(@, a - CRAM_BASE, value)]
        ELSE [e EXCEPT !.bus = write_u8(@, U32(a), value)]

\* ------------------------------------------------------------------ inputs
\* bounds of the explored runs
MaxCycles == 10
MaxRequests == 3
MaxResets == 1
MaxEmuCycles == 20
MaxWrites == 2
MaxFrames == 2
MaxNops == 16
MaxVdpSteps == 3
MaxHaltCycles == 14

\* the interrupt ids the host requests: architected ids of distinct priorities,
\* NMI, and one id outside the vector table
InterruptIds == {0, 3, 5, 6, 7, 8}

Vec24(addr) == <<addr % TwoPow8, (addr \div TwoPow8) % TwoPow8, addr \div TwoPow16>>
Zeros(n) == [i \in 1..n |-> 0]
PadTo(seq, n) == seq \o Zeros(n - Len(seq))

\* BIOS image: nine vectors (reset/SWI -> 0xFF0020, id n -> 0xFF0040 + 4n), a main
\* loop SEI; NOP; CLI; NOP; BRA -6 at 0xFF0020, and handlers: CLI; RTI, except the
\* HBLANK handler NOP; NOP; RTI
ImgHandlers ==
    PadTo(Vec24(16711712) \o Vec24(16711748) \o Vec24(16711752) \o Vec24(16711756)
          \o Vec24(16711760) \o Vec24(16711764) \o Vec24(16711768)
          \o Vec24(16711772) \o Vec24(16711776), 32)
    \o PadTo(<<64, 0, 65, 0, 48, 250>>, 36)
    \o <<65, 66, 0, 0>> \o <<65, 66, 0, 0>> \o <<65, 66, 0, 0>> \o <<65, 66, 0, 0>>
    \o <<65, 66, 0, 0>> \o <<0, 0, 66, 0>> \o <<65, 66, 0, 0>> \o <<65, 66, 0, 0>>

\* BIOS image: reset -> 0xFF0020: JMP $FFFFFF (the last BIOS byte, a NOP);
\* NMI vector -> 0xFFFFFF, the other vectors -> 0x000000
ImgWrap ==
    PadTo(Vec24(16711712), 21) \o PadTo(Vec24(16777215), 11)
    \o <<32, 255, 255, 255>>

\* BIOS image: reset -> 0xFF0020: LDA #0xFC30; STA $000000; JMP $000000, which
\* plants BRA -4 at address 0
ImgBackBranch ==
    PadTo(Vec24(16711712), 32)
    \o <<1, 48, 252, 2, 0, 0, 0, 32, 0, 0, 0>>

CpuImages == {ImgHandlers, ImgWrap, ImgBackBranch}

\* ------------------------------------------------------------------ state
\* emu: the Nexel24 object (cpu, bus, vdp, frame_count, target_cycles_per_frame)
\* hist: the last host call, its argument, the call before it, the emulator
\*       before the last call, the ids serviced since the last enqueue call and
\*       the id of the last enqueue call (-1 before the first)
\* calls: how many host calls of each bounded kind were made (frames: how many
\*        frames the host asked for)
VARIABLES emu, hist, calls

vars == <<emu, hist, calls>>

Machine(e) == [cpu |-> e.cpu, bus |-> e.bus]

Hist0(e) ==
    [op |-> "new", arg |-> 0, prev_op |-> "new", prev_arg |-> 0, pre |-> e,
     served |-> <<>>, requested |-> -1]
Calls0 == [requests |-> 0, resets |-> 0, writes |-> 0, frames |-> 0, steps |-> 0]

Record(op, arg, served, requested) ==
    hist' = [op |-> op, arg |-> arg, prev_op |-> hist.op, prev_arg |-> hist.arg,
             pre |-> emu, served |-> served, requested |-> requested]

\* the ids that left the pending queue between two CPU states, in queue order
Removed(before, after) == SelectSeq(before, LAMBDA k : ~Contains(after, k))

\* Cpu::new() and Bus24::new() with a BIOS image loaded
Init ==
    /\ \E img \in CpuImages : emu = Nexel24_load_bios(Nexel24_new, img)
    /\ hist = Hist0(emu)
    /\ calls = Calls0

RequestInterrupt(int) ==
    /\ calls.requests < MaxRequests
    /\ emu' = [emu EXCEPT !.cpu = request_interrupt(@, int)]
    /\ Record("request_interrupt", int, <<>>, int)
    /\ calls' = [calls EXCEPT !.requests = @ + 1]

TriggerNmi ==
    /\ calls.requests < MaxRequests
    /\ emu' = [emu EXCEPT !.cpu = trigger_nmi(@)]
    /\ Record("trigger_nmi", 7, <<>>, 7)
    /\ calls' = [calls EXCEPT !.requests = @ + 1]

CpuStepWith(m) ==
    /\ emu' = [emu EXCEPT !.cpu = m.cpu, !.bus = m.bus]
    /\ Record("step", 0,
              hist.served \o Removed(emu.cpu.pending_interrupts,
                                     m.cpu.pending_interrupts),
              hist.requested)

CpuStep ==
    /\ emu.cpu.cycles < MaxCycles
    /\ CpuStepWith(step(Machine(emu)))
    /\ UNCHANGED calls

CpuReset ==
    /\ calls.resets < MaxResets
    /\ emu' = [emu EXCEPT !.cpu = reset(@, emu.bus)]
    /\ Record("reset", 0, hist.served, hist.requested)
    /\ calls' = [calls EXCEPT !.resets = @ + 1]

Next ==
    \/ \E int \in InterruptIds : RequestInterrupt(int)
    \/ TriggerNmi
    \/ CpuStep
    \/ CpuReset

Spec == Init /\ [][Next]_vars
\* ------------------------------------------------------------------ emulator runs
\* BIOS image: reset -> 0xFF0020: LDA #0x1234; STA $200000 (VRAM); LDX #0x00AB;
\* STX $280010 (CRAM); LDY #0x0001; STY $100000 (VDP register 0); STA $000100
\* (work RAM); HLT
ImgStores ==
    PadTo(Vec24(16711712), 32)
    \o <<1, 52, 18, 2, 0, 0, 32, 3, 171, 0, 4, 16, 0, 40>>
    \o <<5, 1, 0, 6, 0, 0, 16, 2, 0, 1, 0, 255>>

\* BIOS image: reset -> 0xFF0020: LDX #0x0707; STX $27FFFE (the last VRAM word);
\* STX $103FFE (the last word of the register window); STX $28FFFF (the last
\* CRAM byte and the byte after the window); HLT
ImgStoreEdges ==
    PadTo(Vec24(16711712), 32)
    \o <<3, 7, 7, 4, 254, 255, 39, 4, 254, 63, 16, 4, 255, 255, 40, 255>>

EmuImages == {ImgStores, ImgStoreEdges}

\* the addresses and bytes the host writes through Nexel24::write_memory
WriteAddrs == {256, VDP_IO_BASE, VRAM_BASE, VRAM_BASE + 1, CRAM_BASE + 16}
WriteValues == {1, 171}

\* Nexel24::new(), load_bios, reset
InitEmu ==
    /\ \E img \in EmuImages : emu = Nexel24_reset(Nexel24_load_bios(Nexel24_new, img))
    /\ hist = Hist0(emu)
    /\ calls = Calls0

EmuStep ==
    /\ emu.cpu.cycles < MaxEmuCycles
    /\ emu' = Nexel24_step(emu)
    /\ Record("emu_step", 0, <<>>, -1)
    /\ UNCHANGED calls

EmuWriteMemory(addr, value) ==
    /\ calls.writes < MaxWrites
    /\ emu' = write_memory(emu, U32(addr), value)
    /\ Record("write_memory", addr, <<>>, -1)
    /\ calls' = [calls EXCEPT !.writes = @ + 1]

NextEmu ==
    \/ EmuStep
    \/ \E addr \in WriteAddrs, value \in WriteValues : EmuWriteMemory(addr, value)

SpecEmu == InitEmu /\ [][NextEmu]_vars

\* ------------------------------------------------------------------ halt and reset runs
\* BIOS image: reset -> 0xFF0020: LDA #0x8000; LDX #0x0001; LDY #0x0002; SEI;
\* JSR $FF0030 and at 0xFF0030 HLT; the other vectors -> 0xFF0030
ImgHalt ==
    Vec24(16711712) \o Vec24(16711728) \o Vec24(16711728) \o Vec24(16711728)
    \o Vec24(16711728) \o Vec24(16711728) \o Vec24(16711728)
    \o PadTo(Vec24(16711728), 11)
    \o PadTo(<<1, 0, 128, 3, 1, 0, 5, 2, 0, 64, 33, 48, 0, 255>>, 16)
    \o <<255>>

\* Nexel24::new(), load_bios, reset
InitHalt ==
    /\ emu = Nexel24_reset(Nexel24_load_bios(Nexel24_new, ImgHalt))
    /\ hist = Hist0(emu)
    /\ calls = Calls0

HaltStep ==
    /\ emu.cpu.cycles < MaxHaltCycles
    /\ emu' = Nexel24_step(emu)
    /\ Record("emu_step", 0, <<>>, -1)
    /\ UNCHANGED calls

EmuStepFrame ==
    /\ calls.frames < MaxFrames
    /\ emu' = step_frame(emu)
    /\ Record("step_frame", 1, <<>>, -1)
    /\ calls' = [calls EXCEPT !.frames = @ + 1]

EmuTriggerNmi ==
    /\ calls.requests < MaxRequests
    /\ emu' = [emu EXCEPT !.cpu = trigger_nmi(@)]
    /\ Record("trigger_nmi", 7, <<>>, -1)
    /\ calls' = [calls EXCEPT !.requests = @ + 1]

EmuReset ==
    /\ calls.resets < MaxResets
    /\ emu' = Nexel24_reset(emu)
    /\ Record("emu_reset", 0, <<>>, -1)
    /\ calls' = [calls EXCEPT !.resets = @ + 1]

EmuRequestDmaDone ==
    /\ calls.requests < MaxRequests
    /\ emu' = [emu EXCEPT !.cpu = request_interrupt(@, 5)]
    /\ Record("request_interrupt", 5, <<>>, -1)
    /\ calls' = [calls EXCEPT !.requests = @ + 1]

NextHalt ==
    \/ HaltStep
    \/ EmuStepFrame
    \/ EmuTriggerNmi
    \/ EmuRequestDmaDone
    \/ EmuReset

SpecHalt == InitHalt /\ [][NextHalt]_vars

\* ------------------------------------------------------------------ frame runs
\* BIOS images: reset -> 0xFF0020: k NOPs and HLT, for k in 0..MaxNops
ImgNopsHlt(k) == PadTo(Vec24(16711712), 32) \o Zeros(k) \o <<255>>

\* BIOS image: reset -> 0xFF0020: LDA #0x0001; ADD #0x0001; NOP; BRA -2, a
\* program that never halts
ImgLoop == PadTo(Vec24(16711712), 32) \o <<1, 1, 0, 16, 1, 0, 0, 48, 254>>

FrameImages == {ImgNopsHlt(k) : k \in 0..MaxNops} \cup {ImgLoop}

\* the frame counts the host passes to run_frames
RunCounts == {1, 2}

\* Nexel24::new(), load_bios, reset
InitFrame ==
    /\ \E img \in FrameImages : emu = Nexel24_reset(Nexel24_load_bios(Nexel24_new, img))
    /\ hist = Hist0(emu)
    /\ calls = Calls0

\* the record of a frame-level call: the call, its argument and the emulator
\* it started from
RecordFrame(op, arg) ==
    hist' = [Hist0(emu) EXCEPT !.op = op, !.arg = arg]

StepFrame ==
    /\ calls.frames < MaxFrames
    /\ emu' = step_frame(emu)
    /\ RecordFrame("step_frame", 1)
    /\ calls' = [calls EXCEPT !.frames = @ + 1]

RunFrames(num_frames) ==
    /\ calls.frames + num_frames <= MaxFrames
    /\ emu' = run_frames(emu, num_frames)
    /\ RecordFrame("run_frames", num_frames)
    /\ calls' = [calls EXCEPT !.frames = @ + num_frames]

NextFrame ==
    \/ StepFrame
    \/ \E num_frames \in RunCounts : RunFrames(num_frames)

SpecFrame == InitFrame /\ [][NextFrame]_vars

\* ------------------------------------------------------------------ VDP runs
\* the cycle counts the host passes to Vdp::step: one cycle, up to the H-blank
\* threshold, one scanline, 239 scanlines, and one whole frame of 1024 * 288
StepCycles == {1, 768, CYCLES_PER_SCANLINE, 239 * CYCLES_PER_SCANLINE,
               CYCLES_PER_SCANLINE * SCANLINES_PER_FRAME}

\* the <<offset, value>> pairs the host passes to Vdp::write_reg: display
\* enable, and writes to the DISPSTAT, VCOUNT and HCOUNT offsets
RegWrites == {<<0, 1>>, <<2, 65535>>, <<4, 100>>, <<6, 900>>}

\* Nexel24::new(): the VDP as Vdp::new() leaves it
InitVdp ==
    /\ emu = Nexel24_new
    /\ hist = Hist0(emu)
    /\ calls = Calls0

VdpStep(cycles) ==
    /\ calls.steps < MaxVdpSteps
    /\ emu' = [emu EXCEPT !.vdp = Vdp_step(@, cycles).vdp]
    /\ Record("vdp_step", cycles, <<>>, -1)
    /\ calls' = [calls EXCEPT !.steps = @ + 1]

VdpWriteReg(offset, value) ==
    /\ calls.writes < MaxWrites
    /\ emu' = [emu EXCEPT !.vdp = write_reg(@, offset, value)]
    /\ Record("vdp_write_reg", offset, <<>>, -1)
    /\ calls' = [calls EXCEPT !.writes = @ + 1]

NextVdp ==
    \/ \E cycles \in StepCycles : VdpStep(cycles)
    \/ \E w \in RegWrites : VdpWriteReg(w[1], w[2])

SpecVdp == InitVdp /\ [][NextVdp]_vars

\* ------------------------------------------------------------------ call and return runs
MaxSubCycles == 16
MaxSubRequests == 1

\* every id a host can pass to request_interrupt within and just past the table
AllInterruptIds == 0..8

\* stack pointers the host gives the CPU: the reset value, a middle value, the
\* values whose three stack bytes wrap around 0x0000, and one whose stack bytes
\* cover the subroutine planted at 0x000200
StackPointers == {65535, 32768, 0, 1, 2, 514}

\* the address the host sets PC to
SubEntry == 16711712

\* BIOS image: every vector -> 0xFF0040 (RTI); at 0xFF0020: NOP; SEI;
\* JSR $FF0030; HLT; at 0xFF0030: RTS
ImgSubBios ==
    PadTo(Vec24(16711744) \o Vec24(16711744) \o Vec24(16711744) \o Vec24(16711744)
          \o Vec24(16711744) \o Vec24(16711744) \o Vec24(16711744)
          \o Vec24(16711744) \o Vec24(16711744), 32)
    \o PadTo(<<0, 64, 33, 48, 0, 255, 255>>, 16)
    \o PadTo(<<34>>, 16)
    \o <<66>>

\* BIOS image: every vector -> 0xFF0040 (RTI); at 0xFF0020: LDA #0x0022;
\* STA $000200; JSR $000200; HLT, which plants RTS in work RAM and calls it
ImgSubRam ==
    PadTo(Vec24(16711744) \o Vec24(16711744) \o Vec24(16711744) \o Vec24(16711744)
          \o Vec24(16711744) \o Vec24(16711744) \o Vec24(16711744)
          \o Vec24(16711744) \o Vec24(16711744), 32)
    \o PadTo(<<1, 34, 0, 2, 0, 2, 0, 33, 0, 2, 0, 255>>, 32)
    \o <<66>>

\* BIOS image: every vector -> 0xFF0040 (RTI); at 0xFF0020: JMP $FFFFFC; the
\* last four BIOS bytes: JSR $FF0030; at 0xFF0030: RTS
ImgSubTop ==
    PadTo(PadTo(Vec24(16711744) \o Vec24(16711744) \o Vec24(16711744)
                \o Vec24(16711744) \o Vec24(16711744) \o Vec24(16711744)
                \o Vec24(16711744) \o Vec24(16711744) \o Vec24(16711744), 32)
          \o PadTo(<<32, 252, 255, 255>>, 16)
          \o PadTo(<<34>>, 16)
          \o <<66>>, BIOS_SIZE - 4)
    \o <<33, 48, 0, 255>>

\* BIOS image: every vector -> 0xFF0040 (RTI); at 0xFF0020: JMP $FFFFFF, the
\* last BIOS byte, a NOP, after which PC leaves the 24-bit range
ImgSubWrap ==
    PadTo(Vec24(16711744) \o Vec24(16711744) \o Vec24(16711744) \o Vec24(16711744)
          \o Vec24(16711744) \o Vec24(16711744) \o Vec24(16711744)
          \o Vec24(16711744) \o Vec24(16711744), 32)
    \o PadTo(<<32, 255, 255, 255>>, 32)
    \o <<66>>

SubImages == {ImgSubBios, ImgSubRam, ImgSubTop, ImgSubWrap}

\* the history of these runs also keeps the emulator as it was two calls ago
HistSub0(e) ==
    [op |-> "new", arg |-> 0, prev_op |-> "new", prev_arg |-> 0, pre |-> e,
     pre2 |-> e, served |-> <<>>, requested |-> -1]

RecordSub(op, arg) ==
    hist' = [op |-> op, arg |-> arg, prev_op |-> hist.op, prev_arg |-> hist.arg,
             pre |-> emu, pre2 |-> hist.pre, served |-> <<>>, requested |-> -1]

\* Cpu::new() and Bus24::new() with a BIOS image loaded; the host then sets the
\* public fields pc and sp, as the tests of cpu.rs do
InitSub ==
    /\ \E img \in SubImages, sp \in StackPointers :
          emu = [Nexel24_load_bios(Nexel24_new, img)
                     EXCEPT !.cpu.pc = U32(SubEntry), !.cpu.sp = sp]
    /\ hist = HistSub0(emu)
    /\ calls = Calls0

SubStep ==
    /\ emu.cpu.cycles < MaxSubCycles
    /\ LET m == step(Machine(emu))
       IN  emu' = [emu EXCEPT !.cpu = m.cpu, !.bus = m.bus]
    /\ RecordSub("step", 0)
    /\ UNCHANGED calls

SubRequestInterrupt(int) ==
    /\ calls.requests < MaxSubRequests
    /\ emu' = [emu EXCEPT !.cpu = request_interrupt(@, int)]
    /\ RecordSub("request_interrupt", int)
    /\ calls' = [calls EXCEPT !.requests = @ + 1]

NextSub ==
    \/ SubStep
    \/ \E int \in AllInterruptIds : SubRequestInterrupt(int)

SpecSub == InitSub /\ [][NextSub]_vars

\* ------------------------------------------------------------------ bus runs
MaxBusWrites == 2

\* the first and last address of every mapped region and of every gap between
\* them, as 24-bit addresses
EdgeAddrs ==
    {WORKRAM_BASE, EXPANDED_RAM_BASE - 1, EXPANDED_RAM_BASE, EXPANDED_RAM_END - 1,
     EXPANDED_RAM_END, IO_BASE - 1, IO_BASE, IO_BASE + IO_SIZE - 1, IO_BASE + IO_SIZE,
     VRAM_BASE - 1, VRAM_BASE, VRAM_BASE + VRAM_SIZE - 1, CRAM_BASE,
     CRAM_BASE + CRAM_SIZE - 1, CRAM_BASE + CRAM_SIZE, CART_ROM_BASE - 1,
     CART_ROM_BASE, CART_ROM_BASE + 1, CART_ROM_BASE + CART_ROM_SIZE - 1,
     CART_SAVE_BASE, CART_SAVE_BASE + CART_SAVE_SIZE - 1,
     CART_SAVE_BASE + CART_SAVE_SIZE, BIOS_BASE - 1, BIOS_BASE,
     BIOS_BASE + BIOS_SIZE - 1}

\* u32 addresses beyond 24 bits, one into each kind of target
HighAddrs ==
    {[hi |-> 1, lo |-> WORKRAM_BASE], [hi |-> 255, lo |-> EXPANDED_RAM_END - 1],
     [hi |-> 128, lo |-> IO_BASE], [hi |-> 1, lo |-> VRAM_BASE + VRAM_SIZE - 1],
     [hi |-> 255, lo |-> CRAM_BASE], [hi |-> 2, lo |-> CART_SAVE_BASE],
     [hi |-> 1, lo |-> CART_ROM_BASE], [hi |-> 255, lo |-> BIOS_BASE + BIOS_SIZE - 1],
     [hi |-> 1, lo |-> EXPANDED_RAM_END]}

BusAddrs == {U32(a) : a \in EdgeAddrs} \cup HighAddrs
ByteValues == {0, 171}

\* addresses of the wider writes: straddling a region edge, inside one region,
\* and wrapping past the top of the u32 range
WideAddrs ==
    {U32(EXPANDED_RAM_BASE - 1), U32(EXPANDED_RAM_END - 1), U32(IO_BASE - 1),
     U32(VRAM_BASE + VRAM_SIZE - 1), U32(CART_ROM_BASE - 1), U32(CART_ROM_BASE),
     U32(CART_SAVE_BASE - 1), U32(BIOS_BASE - 1),
     [hi |-> 255, lo |-> BIOS_BASE + BIOS_SIZE - 1]}

\* the cartridge the host loads
CartData == <<195, 60, 90>>

\* Bus24::new() with a BIOS and a cartridge loaded
Bus0 == load_cart_rom(load_bios(Bus24_new, ImgSubTop), CartData)

HistBus0(e) ==
    [op |-> "new", arg |-> U32(0), value |-> 0, pre |-> e]

RecordBus(op, addr, value) ==
    hist' = [op |-> op, arg |-> addr, value |-> value, pre |-> emu]

InitBus ==
    /\ emu = [Nexel24_new EXCEPT !.bus = Bus0]
    /\ hist = HistBus0(emu)
    /\ calls = Calls0

BusWriteU8(addr, value) ==
    /\ calls.writes < MaxBusWrites
    /\ emu' = [emu EXCEPT !.bus = write_u8(@, addr, value)]
    /\ RecordBus("write_u8", addr, value)
    /\ calls' = [calls EXCEPT !.writes = @ + 1]

BusWriteU16(addr, value) ==
    /\ calls.writes < MaxBusWrites
    /\ emu' = [emu EXCEPT !.bus = write_u16(@, addr, value)]
    /\ RecordBus("write_u16", addr, value)
    /\ calls' = [calls EXCEPT !.writes = @ + 1]

BusWriteU24(addr, value) ==
    /\ calls.writes < MaxBusWrites
    /\ emu' = [emu EXCEPT !.bus = write_u24(@, addr, value)]
    /\ RecordBus("write_u24", addr, value)
    /\ calls' = [calls EXCEPT !.writes = @ + 1]

NextBus ==
    \/ \E addr \in BusAddrs, value \in ByteValues : BusWriteU8(addr, value)
    \/ \E addr \in WideAddrs : BusWriteU16(addr, 42330)
    \/ \E addr \in WideAddrs : BusWriteU24(addr, 1193046)

SpecBus == InitBus /\ [][NextBus]_vars

\* ------------------------------------------------------------------ ALU runs
MaxAluCycles == 4

\* accumulator and operand values: the ends and the middle of the unsigned and
\* of the signed 16-bit range, and values between them
AluValues == {0, 1, 2, 4660, 16384, 32766, 32767, 32768, 32769, 49152, 65534, 65535}
AluOpcodes == {16, 17}

\* BIOS image at 0xFF0000: two ADD/SUB instructions with immediate operands
ImgAlu(op1, v, op2, w) ==
    <<op1, v % TwoPow8, v \div TwoPow8, op2, w % TwoPow8, w \div TwoPow8>>

\* Cpu::new() and Bus24::new() with the program loaded; the host then sets the
\* public fields pc and a
InitAlu ==
    /\ \E op1 \in AluOpcodes, op2 \in AluOpcodes, a \in AluValues,
          v \in AluValues, w \in AluValues :
          emu = [Nexel24_load_bios(Nexel24_new, ImgAlu(op1, v, op2, w))
                     EXCEPT !.cpu.pc = U32(BIOS_BASE), !.cpu.a = a]
    /\ hist = Hist0(emu)
    /\ calls = Calls0

AluStep ==
    /\ emu.cpu.cycles < MaxAluCycles
    /\ LET m == step(Machine(emu))
       IN  emu' = [emu EXCEPT !.cpu = m.cpu, !.bus = m.bus]
    /\ Record("step", 0, <<>>, -1)
    /\ UNCHANGED calls

NextAlu == AluStep

SpecAlu == InitAlu /\ [][NextAlu]_vars

\* ------------------------------------------------------------------ branch and opcode runs
MaxBranchCycles == 3

\* the opcode bytes with an arm of their own in Cpu::execute_instruction
Implemented == (0..6) \cup (16..20) \cup {32, 33, 34, 48, 49, 50, 64, 65, 66, 255}
\* the opcode bytes the assembler emits for branches
BranchOpcodes == 48..56
\* operand bytes: zero, small and extreme forward and backward offsets
Offsets == {0, 1, 127, 128, 252, 254, 255}
\* addresses of the opcode: inside the BIOS, the first work RAM byte (a backward
\* branch leaves the 24-bit range downward) and the last two BIOS bytes (a
\* forward branch leaves it upward)
BranchSites == {BIOS_BASE + 16, WORKRAM_BASE, BIOS_BASE + BIOS_SIZE - 2}

\* the bus with the two bytes op, o at address p: through load_bios for a BIOS
\* address, through write_u8 otherwise
Plant(bus, p, op, o) ==
    IF p >= BIOS_BASE
    THEN load_bios(bus, Zeros(p - BIOS_BASE) \o <<op, o>>)
    ELSE write_u8(write_u8(bus, U32(p), op), U32(p + 1), o)

\* Cpu::new() with pc and the public flags set by the host
CpuAt(p, z, c, n, v) ==
    [Cpu_new EXCEPT !.pc = U32(p), !.sr.zero = z, !.sr.carry = c,
                    !.sr.negative = n, !.sr.overflow = v]

\* a branch opcode with every operand, flag combination and site, or any
\* unimplemented opcode byte with registers and flags set
InitBranch ==
    /\ \/ \E op \in BranchOpcodes, o \in Offsets, p \in BranchSites,
            z \in BOOLEAN, c \in BOOLEAN, n \in BOOLEAN, v \in BOOLEAN :
            emu = [Nexel24_new EXCEPT !.bus = Plant(@, p, op, o),
                                      !.cpu = CpuAt(p, z, c, n, v)]
       \/ \E op \in (0..255) \ Implemented, o \in {0, 255}, f \in BOOLEAN :
            emu = [Nexel24_new EXCEPT
                      !.bus = Plant(@, BIOS_BASE + 16, op, o),
                      !.cpu = [CpuAt(BIOS_BASE + 16, f, f, f, f) EXCEPT
                                  !.a = 4660, !.x = 1, !.y = 2, !.sp = 4096,
                                  !.r = [i \in 0..7 |-> i + 1],
                                  !.sr.interrupt_disable = TRUE,
                                  !.pending_interrupts = <<3>>]]
    /\ hist = Hist0(emu)
    /\ calls = Calls0

BranchStep ==
    /\ emu.cpu.cycles < MaxBranchCycles
    /\ LET m == step(Machine(emu))
       IN  emu' = [emu EXCEPT !.cpu = m.cpu, !.bus = m.bus]
    /\ Record("step", 0, <<>>, -1)
    /\ UNCHANGED calls

NextBranch == BranchStep

SpecBranch == InitBranch /\ [][NextBranch]_vars

\* ------------------------------------------------------------------ program runs
MaxProgCycles == 51

\* BIOS image: reset vector 0xFF0003; LDA #0x1234; STA $001000; HLT
ImgStats == <<3, 0, 255, 1, 52, 18, 2, 0, 16, 0, 255>>

\* BIOS image: reset -> 0xFF0020: SEI; CLI; NOP; LDA #v; LDX #1; LDY #2; ADD #v;
\* SUB #1; AND #0x0FF0; OR #v; XOR #0xFFFF; STA $001000; STX $200000;
\* STY $001002; JSR $FF0060; JSR $FF0061; JMP $FF0062; at 0xFF0060: RTS;
\* at 0xFF0061: RTI; at 0xFF0062: HLT
ImgAllOps(v) ==
    PadTo(Vec24(16711712), 32)
    \o PadTo(<<64, 65, 0, 1, v % TwoPow8, v \div TwoPow8, 3, 1, 0, 5, 2, 0,
               16, v % TwoPow8, v \div TwoPow8, 17, 1, 0, 18, 240, 15,
               19, v % TwoPow8, v \div TwoPow8, 20, 255, 255,
               2, 0, 16, 0, 4, 0, 0, 32, 6, 2, 16, 0,
               33, 96, 0, 255, 33, 97, 0, 255, 32, 98, 0, 255>>, 64)
    \o <<34, 66, 255>>

ProgImages == {ImgStats} \cup {ImgAllOps(v) : v \in AluValues}

\* the history of these runs keeps the opcodes executed since reset
HistProg0(e) == [op |-> "emu_reset", arg |-> 0, pre |-> e, executed |-> <<>>]

\* Nexel24::new(), load_bios, reset
InitProg ==
    /\ \E img \in ProgImages :
          emu = Nexel24_reset(Nexel24_load_bios(Nexel24_new, img))
    /\ hist = HistProg0(emu)
    /\ calls = Calls0

\* one Nexel24::step of a run to halt
ProgStep ==
    /\ ~emu.cpu.halted
    /\ emu.cpu.cycles < MaxProgCycles
    /\ emu' = Nexel24_step(emu)
    /\ hist' = [op |-> "emu_step", arg |-> 0, pre |-> emu,
                executed |-> Append(hist.executed, read_u8(emu.bus, emu.cpu.pc))]
    /\ UNCHANGED calls

NextProg == ProgStep

SpecProg == InitProg /\ [][NextProg]_vars

\* ------------------------------------------------------------------ DMA runs
MaxDmaWrites == 2

\* register offsets the host writes: DMA source, destination, length and
\* control, IRQ enable and IRQ status
DmaOffsets == {112, 116, 120, 122, 128, 130}
\* values with bit 15 set and clear
DmaValues == {0, 1, 32767, 32768, 65535}

HistDma0(e) == [op |-> "new", arg |-> 0, value |-> 0, pre |-> e]

\* Nexel24::new(): the VDP as Vdp::new() leaves it, the CPU with an empty queue
InitDma ==
    /\ emu = Nexel24_new
    /\ hist = HistDma0(emu)
    /\ calls = Calls0

\* Vdp::write_reg called by the host
DmaWriteReg(offset, value) ==
    /\ calls.writes < MaxDmaWrites
    /\ emu' = [emu EXCEPT !.vdp = write_reg(@, offset, value)]
    /\ hist' = [op |-> "vdp_write_reg", arg |-> offset, value |-> value, pre |-> emu]
    /\ calls' = [calls EXCEPT !.writes = @ + 1]

NextDma == \E offset \in DmaOffsets, value \in DmaValues : DmaWriteReg(offset, value)

SpecDma == InitDma /\ [][NextDma]_vars

\* ------------------------------------------------------------------ APU runs
MaxApuWrites == 1
MaxApuSteps == 2
MaxApuTakes == 2

\* sample lengths the host programs: none, one tick, and more than any step takes
SampleLengths == {0, 1, 3}
\* cycles of a step: none, less than one tick (clamped to 1), and two ticks
ApuCycles == {0, 1, 128}
\* offsets written during a run: channel 0 control, an unknown channel register,
\* channel 0 sample length low, STATUS, the version register, an unknown global
ApuWriteOffsets == {0, 7, 12, STATUS_OFFSET, GLOBAL_VERSION_OFFSET, GLOBAL_VERSION_OFFSET + 1}
ApuWriteValues == {0, 1}

\* the writes by which the host sets up channels 0 and 5: control, then sample
\* length low byte
Configure(apu, en0, len0, en5, len5) ==
    write_register(
        write_register(
            write_register(
                write_register(apu, 0, IF en0 THEN 1 ELSE 0),
                12, len0),
            5 * CHANNEL_STRIDE, IF en5 THEN 1 ELSE 0),
        5 * CHANNEL_STRIDE + 12, len5)

\* some channel's sample length went from positive to zero between two Apus
ReachedZero(before, after) ==
    \E i \in DOMAIN before.channels :
        /\ before.channels[i].sample_length > 0
        /\ after.channels[i].sample_length = 0

\* the history of these runs keeps the result of the last take_buffer_empty and
\* whether a buffer-empty event (a sample length reaching zero, or the latch
\* raised by a write or by the set-up) has happened since the last take that
\* returned true, now (event) and before the last call (pre_event)
HistApu0(e) ==
    [op |-> "new", arg |-> 0, value |-> 0, ready |-> FALSE, pre |-> e,
     event |-> e.apu.buffer_empty_latch, pre_event |-> e.apu.buffer_empty_latch]

RecordApu(op, arg, value, ready, event) ==
    hist' = [op |-> op, arg |-> arg, value |-> value, ready |-> ready, pre |-> emu,
             event |-> event, pre_event |-> hist.event]

\* Nexel24::new(), untouched or with channels 0 and 5 set up by the host
InitApu ==
    /\ \/ emu = Nexel24_new
       \/ \E en0 \in BOOLEAN, en5 \in BOOLEAN,
             len0 \in SampleLengths, len5 \in SampleLengths :
             emu = [Nexel24_new EXCEPT !.apu = Configure(@, en0, len0, en5, len5)]
    /\ hist = HistApu0(emu)
    /\ calls = Calls0

ApuWrite(offset, value) ==
    /\ calls.writes < MaxApuWrites
    /\ emu' = [emu EXCEPT !.apu = write_register(@, offset, value)]
    /\ RecordApu("write_register", offset, value, FALSE,
                 \/ hist.event
                 \/ ReachedZero(emu.apu, write_register(emu.apu, offset, value))
                 \/ /\ ~emu.apu.buffer_empty_latch
                    /\ write_register(emu.apu, offset, value).buffer_empty_latch)
    /\ calls' = [calls EXCEPT !.writes = @ + 1]

ApuStep(cycles) ==
    /\ calls.steps < MaxApuSteps
    /\ emu' = [emu EXCEPT !.apu = Apu_step(@, cycles)]
    /\ RecordApu("apu_step", cycles, 0, FALSE,
                 hist.event \/ ReachedZero(emu.apu, Apu_step(emu.apu, cycles)))
    /\ calls' = [calls EXCEPT !.steps = @ + 1]

\* take_buffer_empty; the calls made are counted in calls.requests
ApuTake ==
    /\ calls.requests < MaxApuTakes
    /\ emu' = [emu EXCEPT !.apu = take_buffer_empty(@).apu]
    /\ RecordApu("take_buffer_empty", 0, 0, take_buffer_empty(emu.apu).ready,
                 hist.event /\ ~take_buffer_empty(emu.apu).ready)
    /\ calls' = [calls EXCEPT !.requests = @ + 1]

NextApu ==
    \/ \E offset \in ApuWriteOffsets, value \in ApuWriteValues : ApuWrite(offset, value)
    \/ \E cycles \in ApuCycles : ApuStep(cycles)
    \/ ApuTake

SpecApu == InitApu /\ [][NextApu]_vars

\* ------------------------------------------------------------------ VLU runs
MaxVluJobs == 1

\* register indices of the jobs: the first and last valid one and the first
\* invalid one
VectorIndices == {0, VECTOR_REGISTER_COUNT - 1, VECTOR_REGISTER_COUNT}
MatrixIndices == {0, MATRIX_REGISTER_COUNT - 1, MATRIX_REGISTER_COUNT}

\* the vectors the host loads: zero and axis vectors of length 1 and 2
LoadedVectors == {Vec3_default, Vec3_new(1, 0, 0), Vec3_new(0, 0 - 2, 0), Vec3_new(0, 0, 2)}
\* the matrices the host loads: a scaling by powers of two and a quarter turn
\* about z
Scaling == <<Vec3_new(1, 0, 0), Vec3_new(0, 2, 0), Vec3_new(0, 0, 4)>>
QuarterTurn == <<Vec3_new(0, 0 - 1, 0), Vec3_new(1, 0, 0), Vec3_new(0, 0, 1)>>

VluJobs ==
    {Transform(d, v, m) : d \in VectorIndices, v \in VectorIndices, m \in MatrixIndices}
    \cup {Dot(a, b) : a \in VectorIndices, b \in VectorIndices}
    \cup {Cross(d, a, b) : d \in VectorIndices, a \in VectorIndices, b \in VectorIndices}
    \cup {Normalize(d, s) : d \in VectorIndices, s \in VectorIndices}

\* Nexel24::new() after the host loaded vector registers 0 and 7 and matrix
\* registers 0 and 3, with the I flag clear or set and nothing, VLU_DONE or the
\* NMI already pending
InitVlu ==
    /\ \E v0 \in LoadedVectors, v7 \in LoadedVectors \ {Vec3_new(0, 0, 2)},
          turn \in BOOLEAN, i \in BOOLEAN, pending \in {<<>>, <<4>>, <<7>>} :
          emu = [Nexel24_new EXCEPT
                   !.vlu = set_matrix(
                               set_matrix(
                                   set_vector(set_vector(@, 0, v0),
                                              VECTOR_REGISTER_COUNT - 1, v7),
                                   0, IF turn THEN QuarterTurn ELSE Scaling),
                               MATRIX_REGISTER_COUNT - 1,
                               IF turn THEN Mat3_default ELSE QuarterTurn),
                   !.cpu.sr.interrupt_disable = i,
                   !.cpu.pending_interrupts = pending]
    /\ hist = [op |-> "new", job |-> Dot(0, 0), result |-> VluResult_Scalar(0), pre |-> emu]
    /\ calls = Calls0

\* self.vlu.compute(&mut self.cpu, job)
VluCompute(job) ==
    /\ calls.requests < MaxVluJobs
    /\ emu' = [emu EXCEPT !.vlu = compute(emu.vlu, emu.cpu, job).vlu,
                          !.cpu = compute(emu.vlu, emu.cpu, job).cpu]
    /\ hist' = [op |-> "compute", job |-> job,
                result |-> compute(emu.vlu, emu.cpu, job).result, pre |-> emu]
    /\ calls' = [calls EXCEPT !.requests = @ + 1]

NextVlu == \E job \in VluJobs : VluCompute(job)

SpecVlu == InitVlu /\ [][NextVlu]_vars

\* ------------------------------------------------------------------ queue runs
\* BIOS image: nine vectors as in ImgHandlers (reset/SWI -> 0xFF0020, id n ->
\* 0xFF0040 + 4n), a main program SEI; NOP; CLI; NOP; HLT at 0xFF0020, and
\* handlers: CLI; RTI for ids 1..4 and 8, HLT for DMA_DONE, NOP; NOP; RTI for
\* HBLANK and SEI; RTI for the NMI
ImgQueue ==
    PadTo(Vec24(16711712) \o Vec24(16711748) \o Vec24(16711752) \o Vec24(16711756)
          \o Vec24(16711760) \o Vec24(16711764) \o Vec24(16711768)
          \o Vec24(16711772) \o Vec24(16711776), 32)
    \o PadTo(<<64, 0, 65, 0, 255>>, 36)
    \o <<65, 66, 0, 0>> \o <<65, 66, 0, 0>> \o <<65, 66, 0, 0>> \o <<65, 66, 0, 0>>
    \o <<255, 0, 0, 0>> \o <<0, 0, 66, 0>> \o <<64, 66, 0, 0>> \o <<65, 66, 0, 0>>

\* Cpu::new() and Bus24::new() with the image loaded; the calls are those of
\* Next
InitQueue ==
    /\ emu = Nexel24_load_bios(Nexel24_new, ImgQueue)
    /\ hist = Hist0(emu)
    /\ calls = Calls0

SpecQueue == InitQueue /\ [][Next]_vars

\* ------------------------------------------------------------------ cycle runs
MaxTickCycles == 2
MaxTickFrames == 1

\* the frame lengths the host sets in target_cycles_per_frame: one cycle, and
\* more than the longest step
FrameLengths == {1, 9}

\* every opcode byte at 0xFF0010 with operand byte 2 (the vectors and the rest
\* of memory are zero, so every transfer lands on NOPs), a CPU that is halted
\* or not, with the Z and I flags set or clear and nothing, a maskable id or
\* the NMI pending, and a frame length
InitTick ==
    /\ \E op \in 0..255, halted \in BOOLEAN, z \in BOOLEAN, i \in BOOLEAN,
          pending \in {<<>>, <<3>>, <<7>>}, len \in FrameLengths :
          emu = [Nexel24_new EXCEPT
                    !.bus = Plant(@, BIOS_BASE + 16, op, 2),
                    !.cpu = [CpuAt(BIOS_BASE + 16, z, FALSE, FALSE, FALSE) EXCEPT
                                !.halted = halted,
                                !.sr.interrupt_disable = i,
                                !.pending_interrupts = pending],
                    !.target_cycles_per_frame = len]
    /\ hist = Hist0(emu)
    /\ calls = Calls0

TickStep ==
    /\ emu.cpu.cycles < MaxTickCycles
    /\ LET m == step(Machine(emu))
       IN  emu' = [emu EXCEPT !.cpu = m.cpu, !.bus = m.bus]
    /\ Record("step", 0, <<>>, -1)
    /\ UNCHANGED calls

TickStepFrame ==
    /\ calls.frames < MaxTickFrames
    /\ emu' = step_frame(emu)
    /\ Record("step_frame", 1, <<>>, -1)
    /\ calls' = [calls EXCEPT !.frames = @ + 1]

NextTick ==
    \/ TickStep
    \/ TickStepFrame

SpecTick == InitTick /\ [][NextTick]_vars

\* ------------------------------------------------------------------ frame counter runs
MaxDriftFrames == 20

\* BIOS image: reset -> 0xFF0020: NOP; JMP $FF0021, a program that never halts
\* and whose every step after the first costs 3 cycles
ImgSpin == PadTo(Vec24(16711712), 32) \o <<0, 32, 33, 0, 255>>

\* the programs run frame by frame: one that never halts and some that halt
\* within the first frame
DriftImages == {ImgSpin} \cup {ImgNopsHlt(k) : k \in 0..4}

\* Nexel24::new(), load_bios, reset
InitDrift ==
    /\ \E img \in DriftImages : emu = Nexel24_reset(Nexel24_load_bios(Nexel24_new, img))
    /\ hist = Hist0(emu)
    /\ calls = Calls0

DriftStepFrame ==
    /\ calls.frames < MaxDriftFrames
    /\ emu' = step_frame(emu)
    /\ RecordFrame("step_frame", 1)
    /\ calls' = [calls EXCEPT !.frames = @ + 1]

NextDrift == DriftStepFrame

SpecDrift == InitDrift /\ [][NextDrift]_vars

\* ------------------------------------------------------------------ backdrop runs
MaxBackdropSteps == 2

\* bytes the host writes to CRAM[0..2]: zero, a middle value, the largest
\* 6-bit value, and bytes with bits 6 and 7 set
CramBytes == {0, 21, 63, 64, 255}
\* display control words: display off, display on with no layer, and display
\* on with BG0 and sprites
ControlWords == {0, DisplayControl_ENABLE,
                 DisplayControl_ENABLE + DisplayControl_BG0_ENABLE
                     + DisplayControl_SPRITE_ENABLE}
\* cycles of a Vdp::step: up to the last visible scanline, one scanline, and
\* the rest of the frame
BackdropCycles == {239 * CYCLES_PER_SCANLINE, CYCLES_PER_SCANLINE,
                   (SCANLINES_PER_FRAME - 240) * CYCLES_PER_SCANLINE}

\* Nexel24::new(), then write_cram of the three backdrop bytes and a write of
\* the display control register
InitBackdrop ==
    /\ \E r \in CramBytes, g \in CramBytes, b \in CramBytes, w \in ControlWords :
          emu = [Nexel24_new EXCEPT
                    !.vdp = write_reg(
                                write_cram(write_cram(write_cram(@, 0, r), 1, g), 2, b),
                                0, w)]
    /\ hist = Hist0(emu)
    /\ calls = Calls0

BackdropStep(cycles) ==
    /\ calls.steps < MaxBackdropSteps
    /\ emu' = [emu EXCEPT !.vdp = Vdp_step(@, cycles).vdp]
    /\ Record("vdp_step", cycles, <<>>, -1)
    /\ calls' = [calls EXCEPT !.steps = @ + 1]

NextBackdrop == \E cycles \in BackdropCycles : BackdropStep(cycles)

SpecBackdrop == InitBackdrop /\ [][NextBackdrop]_vars

\* ------------------------------------------------------------------ Nraw
\* A source is held after tokenising: a sequence of lines, each with the labels
\* declared on it (in order) and at most one instruction, given by the
\* InstructionKind selected for its mnemonic and its Option<Operand>.  An operand
\* text that parse_number accepts is a Value, any other text is a Label.
NoOperand == [tag |-> "None", value |-> U32(0), name |-> ""]
Value(w) == [tag |-> "Value", value |-> w, name |-> ""]
Label(s) == [tag |-> "Label", value |-> U32(0), name |-> s]
Line(labels, kind, operand) == [labels |-> labels, kind |-> kind, operand |-> operand]

NoOperandKinds == {"Nop", "Rts", "Sei", "Cli", "Rti", "Wfi", "Hlt"}
ImmediateKinds ==
    {"Lda", "Ldx", "Ldy", "Add", "Sub", "And", "Or", "Xor", "Mul", "Div", "Bit",
     "Bset", "Bclr"}
AbsoluteKinds == {"LdaAbs", "LdxAbs", "LdyAbs", "Sta", "Stx", "Sty", "Jmp", "Jsr"}
BranchKinds == {"Bra", "Beq", "Bne", "Bcs", "Bcc", "Bmi", "Bpl", "Bvs", "Bvc"}
RegisterKinds == {"Mov", "Inc", "Dec"}

instruction_length(kind) ==
    CASE kind \in NoOperandKinds -> 1
      [] kind \in BranchKinds \cup RegisterKinds \cup {"Cop"} -> 2
      [] kind \in ImmediateKinds -> 3
      [] kind \in AbsoluteKinds -> 4

\* the opcode byte the second pass pushes for each kind
Opcode(kind) ==
    CASE kind = "Nop" -> 0 [] kind = "Hlt" -> 255 [] kind = "Rts" -> 34
      [] kind = "Sei" -> 64 [] kind = "Cli" -> 65 [] kind = "Rti" -> 66
      [] kind = "Wfi" -> 67 [] kind = "Cop" -> 68
      [] kind = "Lda" -> 1 [] kind = "LdaAbs" -> 7 [] kind = "Ldx" -> 3
      [] kind = "LdxAbs" -> 8 [] kind = "Ldy" -> 5 [] kind = "LdyAbs" -> 9
      [] kind = "Add" -> 16 [] kind = "Sub" -> 17 [] kind = "And" -> 18
      [] kind = "Or" -> 19 [] kind = "Xor" -> 20 [] kind = "Mul" -> 21
      [] kind = "Div" -> 22 [] kind = "Mov" -> 23 [] kind = "Inc" -> 24
      [] kind = "Dec" -> 25 [] kind = "Bit" -> 26 [] kind = "Bset" -> 27
      [] kind = "Bclr" -> 28
      [] kind = "Sta" -> 2 [] kind = "Stx" -> 4 [] kind = "Sty" -> 6
      [] kind = "Jmp" -> 32 [] kind = "Jsr" -> 33
      [] kind = "Bra" -> 48 [] kind = "Beq" -> 49 [] kind = "Bne" -> 50
      [] kind = "Bcs" -> 51 [] kind = "Bcc" -> 52 [] kind = "Bmi" -> 53
      [] kind = "Bpl" -> 54 [] kind = "Bvs" -> 55 [] kind = "Bvc" -> 56

\* the HashMap of labels, as a function from the declared names
NoLabels == [s \in {} |-> 0]

\* the label loop of one line: a name already in the map is a DuplicateLabel
RECURSIVE DeclareLabels_after(_, _, _)
DeclareLabels_after(labels, names, address) ==
    IF names = <<>> THEN [err |-> "None", labels |-> labels]
    ELSE IF Head(names) \in DOMAIN labels
        THEN [err |-> "DuplicateLabel", labels |-> labels]
    ELSE DeclareLabels_after(labels @@ (Head(names) :> address + 1), Tail(names),
                             address)

RECURSIVE DeclareLabels(_, _, _)
DeclareLabels(labels, names, address) ==
    IF names = <<>> THEN [err |-> "None", labels |-> labels]
    ELSE IF Head(names) \in DOMAIN labels
        THEN [err |-> "DuplicateLabel", labels |-> labels]
    ELSE DeclareLabels(labels @@ (Head(names) :> address), Tail(names), address)

\* the first pass of assemble: labels take the running address, every
\* instruction is pushed with its address and the address advances by its length
\* (the sources here stay far below 2^32 bytes, where wrapping_add would wrap)
RECURSIVE FirstPass(_, _, _, _)
FirstPass(source, address, labels, instructions) ==
    IF source = <<>>
    THEN [err |-> "None", labels |-> labels, instructions |-> instructions]
    ELSE LET line == Head(source)
             d == DeclareLabels(labels, line.labels, address)
         IN  IF d.err # "None"
             THEN [err |-> d.err, labels |-> d.labels, instructions |-> instructions]
             ELSE IF line.kind = "None"
                 THEN FirstPass(Tail(source), address, d.labels, instructions)
             ELSE FirstPass(Tail(source), address + instruction_length(line.kind),
                            d.labels,
                            Append(instructions,
                                   [kind |-> line.kind, operand |-> line.operand,
                                    address |-> address]))

operand_value(inst, labels) ==
    CASE inst.operand.tag = "Value" -> [err |-> "None", value |-> inst.operand.value]
      [] inst.operand.tag = "Label" ->
            IF inst.operand.name \in DOMAIN labels
            THEN [err |-> "None", value |-> U32(labels[inst.operand.name])]
            ELSE [err |-> "LabelNotFound", value |-> U32(0)]
      [] OTHER -> [err |-> "MissingOperand", value |-> U32(0)]

\* value >= (1 << 24) is an InvalidNumber
operand_address(inst, labels) ==
    LET v == operand_value(inst, labels)
    IN  IF v.err = "None" /\ v.value.hi > 0
        THEN [err |-> "InvalidNumber", value |-> v.value]
        ELSE v

\* u32 as i32
AsI32(w) ==
    IF w.hi >= 128 THEN (w.hi - TwoPow8) * TwoPow24 + w.lo ELSE w.hi * TwoPow24 + w.lo

I32_MAX == 2147483647

\* target as i32 - pc_after_operand as i32.  The subtraction leaves the i32 range
\* when the target is within pc_after_operand of i32::MIN: a build with overflow
\* checks panics there, a build without them wraps
branch_offset(inst, labels, overflow_checks) ==
    LET target == operand_value(inst, labels)
        pc_after_operand == inst.address + instruction_length(inst.kind)
        t == AsI32(target.value)
        overflows == t < 0 /\ t + I32_MAX + 1 < pc_after_operand
        offset == IF overflows
                  THEN ((t + I32_MAX + 1 - pc_after_operand) + I32_MAX) + 1
                  ELSE t - pc_after_operand
    IN  IF target.err # "None" THEN [err |-> target.err, offset |-> 0]
        ELSE IF overflows /\ overflow_checks THEN [err |-> "Panic", offset |-> 0]
        ELSE IF offset < -128 \/ offset > 127
            THEN [err |-> "BranchOutOfRange", offset |-> offset]
        ELSE [err |-> "None", offset |-> offset]

\* the bytes the second pass pushes for one instruction
EmitInstruction(inst, labels, overflow_checks) ==
    CASE inst.kind \in NoOperandKinds ->
            [err |-> "None", bytes |-> <<Opcode(inst.kind)>>]
      [] inst.kind \in ImmediateKinds ->
            LET v == operand_value(inst, labels)
            IN  [err |-> v.err,
                 bytes |-> <<Opcode(inst.kind), v.value.lo % TwoPow8,
                             (v.value.lo \div TwoPow8) % TwoPow8>>]
      [] inst.kind \in RegisterKinds \cup {"Cop"} ->
            LET v == operand_value(inst, labels)
            IN  [err |-> v.err, bytes |-> <<Opcode(inst.kind), v.value.lo % TwoPow8>>]
      [] inst.kind \in AbsoluteKinds ->
            LET addr == operand_address(inst, labels)
            IN  [err |-> addr.err, bytes |-> <<Opcode(inst.kind)>> \o Vec24(addr.value.lo)]
      [] inst.kind \in BranchKinds ->
            LET offset == branch_offset(inst, labels, overflow_checks)
            IN  IF offset.err # "None" THEN [err |-> offset.err, bytes |-> <<>>]
                ELSE [err |-> "None",
                      bytes |-> <<Opcode(inst.kind),
                                  (offset.offset + TwoPow8) % TwoPow8>>]

\* the second pass of assemble: the first error ends it
RECURSIVE SecondPass(_, _, _, _)
SecondPass(instructions, labels, overflow_checks, bytes) ==
    IF instructions = <<>> THEN [err |-> "None", bytes |-> bytes]
    ELSE LET e == EmitInstruction(Head(instructions), labels, overflow_checks)
         IN  IF e.err # "None" THEN [err |-> e.err, bytes |-> <<>>]
             ELSE SecondPass(Tail(instructions), labels, overflow_checks,
                             bytes \o e.bytes)

\* assemble: Ok(AssembledProgram) has err "None", Err(e) carries no program
assemble(source, overflow_checks) ==
    LET first == FirstPass(source, 0, NoLabels, <<>>)
        second == SecondPass(first.instructions, first.labels, overflow_checks, <<>>)
    IN  IF first.err # "None"
        THEN [err |-> first.err, bytes |-> <<>>, labels |-> NoLabels]
        ELSE IF second.err # "None"
            THEN [err |-> second.err, bytes |-> <<>>, labels |-> NoLabels]
        ELSE [err |-> "None", bytes |-> second.bytes, labels |-> first.labels]

\* ------------------------------------------------------------------ assembler runs
MaxAsmSteps == 2

BIOS_CODE_OFFSET == 32

Nops(k) == [i \in 1..k |-> Line(<<>>, "Nop", NoOperand)]

\* the operands written after each kind: an immediate, an address below and one
\* above 2^24, the labels a and b, literal branch targets near the branch, past
\* its range and in the upper half of u32, and a register number
OperandsOf(kind) ==
    CASE kind \in NoOperandKinds -> {NoOperand}
      [] kind \in ImmediateKinds \cup {"Cop"} -> {Value(U32(4660))}
      [] kind \in {"Sta", "Jmp"} ->
            {Value(U32(IO_BASE)), Value(W32(1, 0)), Label("a"), Label("b")}
      [] kind \in AbsoluteKinds \ {"Sta", "Jmp"} -> {Label("a")}
      [] kind = "Bra" ->
            {Label("a"), Label("b"), Value(U32(0)), Value(U32(129)), Value(U32(130)),
             Value(W32(255, TwoPow24 - 1)), Value(W32(128, 0)), Value(W32(128, 8))}
      [] kind \in BranchKinds \ {"Bra"} -> {Label("a")}
      [] kind \in RegisterKinds -> {Value(U32(4))}

Kinds ==
    NoOperandKinds \cup ImmediateKinds \cup AbsoluteKinds \cup BranchKinds
    \cup RegisterKinds \cup {"Cop"}

Lines ==
    {Line(labels, kind, operand) :
        labels \in {<<>>, <<"a">>, <<"b">>},
        kind \in Kinds, operand \in UNION {OperandsOf(k) : k \in Kinds}}

SourceLines ==
    {l \in Lines : l.operand \in OperandsOf(l.kind)}
    \cup {Line(<<"a">>, "None", NoOperand), Line(<<"b">>, "None", NoOperand)}

\* the lines at the two ends of a long run of NOPs, and the lengths of the run
SpanEnds ==
    {Line(<<"a">>, "Nop", NoOperand), Line(<<>>, "Bra", Label("a")),
     Line(<<>>, "Bne", Label("a")), Line(<<>>, "Jmp", Label("a")),
     Line(<<"a">>, "Sta", Label("a"))}
Fills == 124..128

\* two-line sources of every kind, and two lines a long run of NOPs apart
Sources ==
    {<<x, y>> : x \in SourceLines, y \in SourceLines}
    \cup {<<x>> \o Nops(k) \o <<y>> : x \in SpanEnds, y \in SpanEnds, k \in Fills}

NoProgram == [err |-> "Unassembled", bytes |-> <<>>, labels |-> NoLabels]

\* a source and a build (with or without overflow checks), not yet assembled
InitAsm ==
    /\ emu = Nexel24_new
    /\ \E source \in Sources, overflow_checks \in BOOLEAN :
          hist = [op |-> "new", source |-> source, overflow_checks |-> overflow_checks,
                  program |-> NoProgram, pre |-> emu]
    /\ calls = Calls0

Assemble ==
    /\ hist.op = "new"
    /\ hist' = [hist EXCEPT !.op = "assemble",
                            !.program = assemble(hist.source, hist.overflow_checks)]
    /\ UNCHANGED <<emu, calls>>

\* the host loads the assembled bytes at BIOS_CODE_OFFSET behind a reset vector
\* that points there, and resets
ProgramImage(bytes) == PadTo(Vec24(BIOS_BASE + BIOS_CODE_OFFSET), BIOS_CODE_OFFSET) \o bytes

LoadProgram ==
    /\ hist.op = "assemble"
    /\ hist.program.err = "None"
    /\ emu' = Nexel24_reset(Nexel24_load_bios(emu, ProgramImage(hist.program.bytes)))
    /\ hist' = [hist EXCEPT !.op = "load", !.pre = emu]
    /\ UNCHANGED calls

AsmStep ==
    /\ hist.op \in {"load", "step"}
    /\ calls.steps < MaxAsmSteps
    /\ emu' = Nexel24_step(emu)
    /\ hist' = [hist EXCEPT !.op = "step", !.pre = emu]
    /\ calls' = [calls EXCEPT !.steps = @ + 1]

NextAsm ==
    \/ Assemble
    \/ LoadProgram
    \/ AsmStep

SpecAsm == InitAsm /\ [][NextAsm]_vars

\* ------------------------------------------------------------------ Bios
LabelLine(name) == Line(<<name>>, "None", NoOperand)
Instruction(kind, operand) == Line(<<>>, kind, operand)

\* BIOS_SOURCE, line by line without its comments and blank lines
BIOS_SOURCE ==
    <<LabelLine("start"),
      Instruction("Cli", NoOperand),
      Instruction("Lda", Value(U32(1))),
      Instruction("Sta", Value(U32(IO_BASE))),
      Instruction("LdaAbs", Value(U32(CART_ROM_BASE))),
      Instruction("Bne", Label("jump_to_cart")),
      LabelLine("idle_loop"),
      Instruction("Wfi", NoOperand),
      Instruction("Bra", Label("idle_loop")),
      LabelLine("jump_to_cart"),
      Instruction("Jmp", Value(U32(CART_ROM_BASE))),
      LabelLine("syscall_entry"),
      Instruction("Bne", Label("check_syscall_1")),
      Instruction("Jmp", Label("syscall_0")),
      LabelLine("check_syscall_1"),
      Instruction("Dec", Value(U32(0))),
      Instruction("Bne", Label("check_syscall_2")),
      Instruction("Jmp", Label("syscall_1")),
      LabelLine("check_syscall_2"),
      Instruction("Dec", Value(U32(0))),
      Instruction("Bne", Label("unknown_syscall")),
      Instruction("Jmp", Label("syscall_2")),
      LabelLine("unknown_syscall"),
      Instruction("Lda", Value(U32(65535))),
      Instruction("Rts", NoOperand),
      LabelLine("syscall_0"),
      Instruction("Lda", Value(U32(256))),
      Instruction("Rts", NoOperand),
      LabelLine("syscall_1"),
      LabelLine("vblank_wait_loop"),
      Instruction("LdaAbs", Value(U32(IO_BASE + 2))),
      Instruction("And", Value(U32(1))),
      Instruction("Beq", Label("vblank_wait_loop")),
      Instruction("Rts", NoOperand),
      LabelLine("syscall_2"),
      LabelLine("delay_loop"),
      Instruction("Dec", Value(U32(4))),
      Instruction("Bne", Label("delay_loop")),
      Instruction("Rts", NoOperand),
      LabelLine("swi_handler"),
      Instruction("Rti", NoOperand),
      LabelLine("pad_event_handler"),
      Instruction("Rti", NoOperand),
      LabelLine("timer0_handler"),
      Instruction("Rti", NoOperand),
      LabelLine("apu_buf_empty_handler"),
      Instruction("Rti", NoOperand),
      LabelLine("vlu_done_handler"),
      Instruction("Rti", NoOperand),
      LabelLine("dma_done_handler"),
      Instruction("Rti", NoOperand),
      LabelLine("hblank_handler"),
      Instruction("Rti", NoOperand),
      LabelLine("nmi_handler"),
      Instruction("Rti", NoOperand)>>

\* assemble(BIOS_SOURCE); the source has no literal branch target, so the build
\* makes no difference
BiosProgram == assemble(BIOS_SOURCE, FALSE)

\* the (label, offset) pairs of the vector table, in offset order
BiosVectors ==
    <<"start", "swi_handler", "pad_event_handler", "timer0_handler",
      "apu_buf_empty_handler", "vlu_done_handler", "dma_done_handler",
      "hblank_handler", "nmi_handler">>

SYSCALL_OFFSET == 256

\* 0xFF0000 + BIOS_CODE_OFFSET + label_addr
BiosEntry(label) == BIOS_BASE + BIOS_CODE_OFFSET + BiosProgram.labels[label]

\* default_bios: BIOS_SIZE bytes of 0xFF, the vector table, the JMP at the system
\* call entry, and last the assembled code at BIOS_CODE_OFFSET
default_bios ==
    [i \in 1..BIOS_SIZE |->
        LET o == i - 1
        IN  IF o >= BIOS_CODE_OFFSET /\ o < BIOS_CODE_OFFSET + Len(BiosProgram.bytes)
            THEN BiosProgram.bytes[o - BIOS_CODE_OFFSET + 1]
            ELSE IF o = SYSCALL_OFFSET THEN 32
            ELSE IF o > SYSCALL_OFFSET /\ o <= SYSCALL_OFFSET + 3
                THEN Vec24(BiosEntry("syscall_entry"))[o - SYSCALL_OFFSET]
            ELSE IF o < 3 * Len(BiosVectors)
                THEN Vec24(BiosEntry(BiosVectors[(o \div 3) + 1]))[(o % 3) + 1]
            ELSE 255]

\* ------------------------------------------------------------------ BIOS runs
MaxBiosCycles == 10
MaxBiosRequests == 1
MaxBiosResets == 1

\* Nexel24::new() with the default BIOS loaded
InitBios ==
    /\ emu = Nexel24_load_bios(Nexel24_new, default_bios)
    /\ hist = Hist0(emu)
    /\ calls = Calls0

BiosRequestInterrupt(int) ==
    /\ calls.requests < MaxBiosRequests
    /\ emu' = [emu EXCEPT !.cpu = request_interrupt(@, int)]
    /\ Record("request_interrupt", int, <<>>, int)
    /\ calls' = [calls EXCEPT !.requests = @ + 1]

BiosTriggerNmi ==
    /\ calls.requests < MaxBiosRequests
    /\ emu' = [emu EXCEPT !.cpu = trigger_nmi(@)]
    /\ Record("trigger_nmi", 7, <<>>, 7)
    /\ calls' = [calls EXCEPT !.requests = @ + 1]

BiosStep ==
    /\ emu.cpu.cycles < MaxBiosCycles
    /\ emu' = Nexel24_step(emu)
    /\ Record("step", 0, hist.served, hist.requested)
    /\ UNCHANGED calls

BiosReset ==
    /\ calls.resets < MaxBiosResets
    /\ emu' = Nexel24_reset(emu)
    /\ Record("reset", 0, hist.served, hist.requested)
    /\ calls' = [calls EXCEPT !.resets = @ + 1]

NextBios ==
    \/ \E int \in 0..7 : BiosRequestInterrupt(int)
    \/ BiosTriggerNmi
    \/ BiosStep
    \/ BiosReset

SpecBios == InitBios /\ [][NextBios]_vars

\* ------------------------------------------------------------------ CPU claims
\* shorthands over the recorded last call
PreCpu == hist.pre.cpu
PreQueue == hist.pre.cpu.pending_interrupts
Queue == emu.cpu.pending_interrupts
IsCpuStep == hist.op = "step"
\* the last call was a step in which an entry left the pending queue
Serviced == IsCpuStep /\ Len(Queue) < Len(PreQueue)
HasMaskable(q) == \E k \in 1..Len(q) : q[k] # 7
\* the 24-bit vector of interrupt n as the bus held it before the last call
VectorOf(n) == read_u24(hist.pre.bus, U32(BIOS_BASE + 3 * n))

\* C1: a step of a non-halted CPU with I=0 and interrupts pending services the
\* pending id of the highest priority (and only it), and the ids serviced one
\* after another since the last enqueue call come in descending priority order
\* (strictly descending ids among 0..7).
C1_HighestPriorityFirst ==
    /\ (IsCpuStep /\ ~PreCpu.halted /\ ~PreCpu.sr.interrupt_disable /\ PreQueue # <<>>)
        => /\ \A k \in 1..Len(PreQueue) : Priority(PreQueue[1]) >= Priority(PreQueue[k])
           /\ Removed(PreQueue, Queue) = <<PreQueue[1]>>
           /\ Queue = Tail(PreQueue)
    /\ \A i, j \in 1..Len(hist.served) :
          i < j => /\ Priority(hist.served[i]) >= Priority(hist.served[j])
                   /\ (hist.served[i] <= 7 /\ hist.served[j] <= 7)
                        => hist.served[i] > hist.served[j]

\* C1 witness: ids 3 then 5 were requested (5 last) and 5 then 3 were serviced
C1_Witness ==
    /\ IsCpuStep
    /\ hist.served = <<5, 3>>
    /\ hist.requested = 5

\* C2: request_interrupt(id) with id # 7 while I=1 changes nothing: the queue,
\* every other CPU field and the rest of the machine are as before the call.
C2_MaskedRequestDropped ==
    (hist.op = "request_interrupt" /\ hist.arg # 7 /\ PreCpu.sr.interrupt_disable)
        => emu = hist.pre

\* C2 witness: a maskable request made with I=1 while another id was pending
C2_Witness ==
    /\ hist.op = "request_interrupt"
    /\ hist.arg # 7
    /\ PreCpu.sr.interrupt_disable
    /\ PreQueue # <<>>
    /\ ~Contains(PreQueue, hist.arg)

\* C3: the step that follows trigger_nmi() or request_interrupt(7) on a
\* non-halted CPU services the NMI: PC is the 24-bit vector at 0xFF0000 + 21
\* and id 7 is no longer pending, whatever I is and whatever else is pending.
C3_NmiServicedNext ==
    (/\ IsCpuStep
     /\ \/ hist.prev_op = "trigger_nmi"
        \/ (hist.prev_op = "request_interrupt" /\ hist.prev_arg = 7)
     /\ ~PreCpu.halted)
        => /\ emu.cpu.pc = U32(VectorOf(7))
           /\ ~Contains(Queue, 7)
           /\ Queue = SelectSeq(PreQueue, LAMBDA k : k # 7)

\* C3 witness: the NMI was triggered with I=1 and a maskable id pending, and
\* the next step serviced it
C3_Witness ==
    /\ IsCpuStep
    /\ hist.prev_op = "trigger_nmi"
    /\ PreCpu.sr.interrupt_disable
    /\ HasMaskable(PreQueue)
    /\ ~PreCpu.halted
    /\ emu.cpu.pc = U32(VectorOf(7))

\* the three stack bytes a push at stack pointer sp writes
StackBytes(sp) == {sp, (sp + TwoPow16 - 1) % TwoPow16, (sp + TwoPow16 - 2) % TwoPow16}
\* every byte of every region outside the three stack bytes is as it was
MemoryUnchangedOutsideStack(b0, b1, sp) ==
    \A r \in DOMAIN b0 :
        \A o \in (DOMAIN b0[r]) \cup (DOMAIN b1[r]) :
            \/ (r = "workram" /\ o \in StackBytes(sp))
            \/ MemGet(b0[r], o) = MemGet(b1[r], o)

\* C4: a step that services interrupt n pushes the low 24 bits of PC (SP goes
\* down by 3 mod 2^16), sets I, loads PC from the vector at 0xFF0000 + 3n,
\* removes n from the queue, adds 7 cycles, and changes nothing else: the other
\* registers and flags, halted, and all memory outside the three stack bytes.
C4_ServiceEffect ==
    Serviced =>
        LET n == PreQueue[1]
            sp == PreCpu.sp
        IN  /\ emu.cpu = [PreCpu EXCEPT !.sp = (sp + TwoPow16 - 3) % TwoPow16,
                                        !.sr.interrupt_disable = TRUE,
                                        !.pc = U32(VectorOf(n)),
                                        !.pending_interrupts = Tail(@),
                                        !.cycles = @ + 7]
            /\ read_u8(emu.bus, U32(sp)) = PreCpu.pc.lo % TwoPow8
            /\ read_u8(emu.bus, U32((sp + TwoPow16 - 1) % TwoPow16))
                   = (PreCpu.pc.lo \div TwoPow8) % TwoPow8
            /\ read_u8(emu.bus, U32((sp + TwoPow16 - 2) % TwoPow16))
                   = PreCpu.pc.lo \div TwoPow16
            /\ MemoryUnchangedOutsideStack(hist.pre.bus, emu.bus, sp)
            /\ emu.vdp = hist.pre.vdp

\* C4 witness: a maskable interrupt was serviced with I clear before the step,
\* a non-zero PC pushed and a second id left pending
C4_Witness ==
    /\ Serviced
    /\ PreQueue[1] # 7
    /\ ~PreCpu.sr.interrupt_disable
    /\ Queue # <<>>
    /\ read_u8(emu.bus, U32(PreCpu.sp)) # 0

\* what a step that fetches and executes the opcode at PC makes of the machine
\* the last call started from
FetchedAndExecuted ==
    execute_instruction([cpu |-> [PreCpu EXCEPT !.pc = AddU32(@, 1)],
                         bus |-> hist.pre.bus],
                        read_u8(hist.pre.bus, PreCpu.pc))

\* C5 as stated: while I=1 a pending maskable interrupt is never serviced, each
\* step (of a non-halted CPU) fetches and executes the instruction at PC and
\* leaves the pending queue unchanged; with I=0 a step services an interrupt.
C5_AsStated ==
    (IsCpuStep /\ ~PreCpu.halted /\ HasMaskable(PreQueue))
        => IF PreCpu.sr.interrupt_disable
           THEN /\ Machine(emu) = FetchedAndExecuted
                /\ Queue = PreQueue
           ELSE Len(Queue) < Len(PreQueue)

\* C5 amended: while I=1 and the CPU is not halted, no maskable id leaves the
\* queue; if no NMI is pending the step fetches and executes the instruction at
\* PC and leaves the queue unchanged, and if an NMI is pending the step services
\* it and only it; the first step taken with I=0 services the head of the
\* queue, the pending id of the highest priority.
C5_MaskedNotServiced ==
    (IsCpuStep /\ ~PreCpu.halted /\ HasMaskable(PreQueue))
        => IF PreCpu.sr.interrupt_disable
           THEN /\ \A k \in 1..Len(PreQueue) :
                      PreQueue[k] # 7 => Contains(Queue, PreQueue[k])
                /\ ~Contains(PreQueue, 7)
                      => /\ Machine(emu) = FetchedAndExecuted
                         /\ Queue = PreQueue
                /\ Contains(PreQueue, 7)
                      => /\ Queue = SelectSeq(PreQueue, LAMBDA k : k # 7)
                         /\ emu.cpu.pc = U32(VectorOf(7))
           ELSE /\ Queue = Tail(PreQueue)
                /\ \A k \in 1..Len(PreQueue) :
                      Priority(PreQueue[1]) >= Priority(PreQueue[k])
                /\ emu.cpu.pc = U32(VectorOf(PreQueue[1]))

\* C5 witness: a maskable id stayed pending over a step that executed CLI with
\* I=1, and the step after it, taken with I=0, serviced that id
C5_Witness ==
    /\ IsCpuStep
    /\ ~PreCpu.sr.interrupt_disable
    /\ hist.prev_op = "step"
    /\ PreQueue # <<>>
    /\ PreQueue[1] # 7
    /\ Queue = Tail(PreQueue)
    /\ Len(hist.served) >= 2

\* C6: no interrupt id appears twice in the pending queue.
C6_NoDuplicates ==
    \A i, j \in 1..Len(Queue) : i # j => Queue[i] # Queue[j]

\* C6 witness: an id that was already pending was requested again with the
\* request not masked
C6_Witness ==
    /\ hist.op \in {"request_interrupt", "trigger_nmi"}
    /\ Contains(PreQueue, hist.arg)
    /\ (hist.arg = 7 \/ ~PreCpu.sr.interrupt_disable)
    /\ Len(PreQueue) >= 2

\* C7: once the CPU has been reset, PC lies in 0..0xFFFFFF (bits 24..31 of
\* the u32 are clear) in every state.
C7_PcIn24Bits ==
    calls.resets > 0 => emu.cpu.pc.hi = 0

\* ------------------------------------------------------------------ emulator claims
\* C8: every Nexel24::step advances the VDP cycle accumulator by the number of
\* cycles the CPU cycle counter advanced in that step, and the accumulator
\* equals the CPU cycle counter (both start at 0 and no reset follows).
C8_VdpAdvancesByCpuCycles ==
    /\ hist.op = "emu_step"
          => emu.vdp.cycles - hist.pre.vdp.cycles
                 = emu.cpu.cycles - hist.pre.cpu.cycles
    /\ emu.vdp.cycles = emu.cpu.cycles

\* the store the last Nexel24::step executed, if it executed one: the target
\* address and the 16-bit register value stored
PreOpcode == read_u8(hist.pre.bus, PreCpu.pc)
StoreExecuted ==
    /\ hist.op = "emu_step"
    /\ ~PreCpu.halted
    /\ PreQueue = <<>>
    /\ PreOpcode \in {2, 4, 6}
StoreTarget == read_u24(hist.pre.bus, AddU32(PreCpu.pc, 1))
StoreValue ==
    IF PreOpcode = 2 THEN PreCpu.a ELSE IF PreOpcode = 4 THEN PreCpu.x ELSE PreCpu.y
InWindow(a, base, size) == a >= base /\ a < base + size
InVdpWindow(a) ==
    \/ InWindow(a, VDP_IO_BASE, VDP_IO_SIZE)
    \/ InWindow(a, VRAM_BASE, VRAM_SIZE)
    \/ InWindow(a, CRAM_BASE, CRAM_SIZE)
\* the byte written at address a is what the VDP returns for it (in a window)
\* or what the Bus returns for it (elsewhere)
ByteReached(a, byte) ==
    IF InWindow(a, VDP_IO_BASE, VDP_IO_SIZE)
    THEN LET offset == a - VDP_IO_BASE
         IN  IF offset % 2 = 0
             THEN read_reg(emu.vdp, offset) % TwoPow8 = byte
             ELSE read_reg(emu.vdp, offset - 1) \div TwoPow8 = byte
    ELSE IF InWindow(a, VRAM_BASE, VRAM_SIZE)
        THEN read_vram(emu.vdp, a - VRAM_BASE) = byte
    ELSE IF InWindow(a, CRAM_BASE, CRAM_SIZE)
        THEN read_cram(emu.vdp, a - CRAM_BASE) = byte
    ELSE read_u8(emu.bus, U32(a)) = byte

\* C9: when a CPU step taken through Nexel24::step executes STA/STX/STY, each
\* of the two bytes written to a VDP register, VRAM or CRAM address is what the
\* VDP returns for it afterwards, and each byte written elsewhere is in the Bus.
C9_StoresReachVdp ==
    StoreExecuted =>
        /\ ByteReached(StoreTarget, StoreValue % TwoPow8)
        /\ ByteReached((StoreTarget + 1) % TwoPow24, StoreValue \div TwoPow8)

\* ------------------------------------------------------------------ frame claims
\* C10: step_frame returns with the CPU halted or with the cycle counter at
\* least 307,200 above its value at entry, and frame_count one higher;
\* run_frames(n) that ends with the CPU not halted has added n to frame_count
\* and at least n * 307,200 to the cycle counter.
C10_FrameAdvances ==
    /\ hist.op = "step_frame"
          => /\ \/ emu.cpu.halted
                \/ emu.cpu.cycles >= hist.pre.cpu.cycles + 307200
             /\ emu.frame_count = hist.pre.frame_count + 1
    /\ (hist.op = "run_frames" /\ ~emu.cpu.halted)
          => /\ emu.frame_count = hist.pre.frame_count + hist.arg
             /\ emu.cpu.cycles >= hist.pre.cpu.cycles + hist.arg * 307200

\* C10 witness: run_frames(2) from reset on the program that never halts ended
\* with frame_count = 2 and the cycle counter past 2 * 307,200
C10_Witness ==
    /\ hist.op = "run_frames"
    /\ hist.arg = 2
    /\ hist.pre.frame_count = 0
    /\ hist.pre.cpu.cycles = 0
    /\ ~emu.cpu.halted
    /\ emu.frame_count = 2
    /\ emu.cpu.cycles > 2 * 307200

\* ------------------------------------------------------------------ VDP claims
\* how many times an accumulator that started at 0 has reached scanline 240 of
\* a 288-scanline frame
VblanksReached(acc) ==
    IF acc < 240 * 1024 THEN 0 ELSE (acc - 240 * 1024) \div (288 * 1024) + 1
\* what the last Vdp::step call returned
StepReturned == Vdp_step(hist.pre.vdp, hist.arg).entered_vblank

\* C11: over any sequence of Vdp::step calls the frame counter counts every
\* frame in which the accumulator reached scanline 240, once each, and a step
\* returns true exactly when the accumulator reached scanline 240 of a frame
\* during it.
C11_OneVblankPerFrame ==
    /\ emu.vdp.frame_count = VblanksReached(emu.vdp.cycles)
    /\ hist.op = "vdp_step"
          => (StepReturned
                <=> VblanksReached(emu.vdp.cycles) > VblanksReached(hist.pre.vdp.cycles))

\* C12: v_count = (accumulator / 1024) mod 288, in 0..287; h_count =
\* accumulator mod 1024; the VBLANK status bit is set iff v_count >= 240 and
\* the HBLANK bit iff h_count >= 768; a write to the DISPSTAT, VCOUNT or HCOUNT
\* offset leaves the counters and the status as they were.
C12_VdpCounters ==
    /\ emu.vdp.v_count = (emu.vdp.cycles \div 1024) % 288
    /\ emu.vdp.v_count \in 0..287
    /\ emu.vdp.h_count = emu.vdp.cycles % 1024
    /\ (BitAnd(emu.vdp.display_status, 1) = 1) <=> (emu.vdp.v_count >= 240)
    /\ (BitAnd(emu.vdp.display_status, 2) = 2) <=> (emu.vdp.h_count >= 768)
    /\ (hist.op = "vdp_write_reg" /\ hist.arg \in {2, 4, 6})
          => /\ emu.vdp.v_count = hist.pre.vdp.v_count
             /\ emu.vdp.h_count = hist.pre.vdp.h_count
             /\ emu.vdp.display_status = hist.pre.vdp.display_status
             /\ \A offset \in {2, 4, 6} :
                   read_reg(emu.vdp, offset) = read_reg(hist.pre.vdp, offset)

\* C12 witness: 0xFFFF was written to the DISPSTAT offset while only the
\* VBLANK bit was set, at scanline 240, and the status kept its value
C12_Witness ==
    /\ hist.op = "vdp_write_reg"
    /\ hist.arg = 2
    /\ emu.vdp.v_count = 240
    /\ emu.vdp.h_count < 768
    /\ read_reg(emu.vdp, 2) = 1

\* ------------------------------------------------------------------ halt and reset claims
\* C13: reset zeroes A, X, Y, R0..R7 and every status flag, sets SP to 0xFFFF
\* and PC to the 24-bit little-endian value at 0xFF0000, clears halted and the
\* cycle counter, and leaves the pending queue and all bus memory as they
\* were; the emulator's reset also sets frame_count to 0.
C13_ResetEffect ==
    hist.op = "emu_reset" =>
        /\ emu.cpu = [a |-> 0, x |-> 0, y |-> 0, r |-> [i \in 0..7 |-> 0],
                      sr |-> [carry |-> FALSE, zero |-> FALSE,
                              interrupt_disable |-> FALSE, decimal |-> FALSE,
                              overflow |-> FALSE, negative |-> FALSE],
                      sp |-> 65535,
                      pc |-> [hi |-> 0,
                              lo |-> MemGet(hist.pre.bus.bios, 0)
                                     + 256 * MemGet(hist.pre.bus.bios, 1)
                                     + 65536 * MemGet(hist.pre.bus.bios, 2)],
                      halted |-> FALSE, cycles |-> 0,
                      pending_interrupts |-> PreQueue]
        /\ emu.bus = hist.pre.bus
        /\ emu.frame_count = 0

\* C13 witness: the emulator was reset with the CPU halted, A, X, SP and the
\* I flag changed, the stack written, an interrupt pending and a frame counted
C13_Witness ==
    /\ hist.op = "emu_reset"
    /\ PreCpu.halted
    /\ PreCpu.a = 32768
    /\ PreCpu.x # 0
    /\ PreCpu.sr.interrupt_disable
    /\ PreCpu.sp # 65535
    /\ PreQueue # <<>>
    /\ PreCpu.cycles > 0
    /\ hist.pre.frame_count > 0
    /\ hist.pre.bus.workram # EmptyMem

\* C14: a step of a halted CPU adds 1 to the cycle counter and changes nothing
\* else in the CPU or the memory: no pending interrupt is serviced, and halted
\* stays set over every call but reset.
C14_HaltedStep ==
    /\ (hist.op = "emu_step" /\ PreCpu.halted)
          => /\ emu.cpu = [PreCpu EXCEPT !.cycles = @ + 1]
             /\ emu.bus = hist.pre.bus
    /\ (hist.op # "emu_reset" /\ PreCpu.halted) => emu.cpu.halted

\* C14 witness: a halted CPU was stepped with the NMI and a maskable id pending
C14_Witness ==
    /\ hist.op = "emu_step"
    /\ PreCpu.halted
    /\ PreQueue = <<7, 5>>

\* ------------------------------------------------------------------ call and return claims
Pre2Cpu == hist.pre2.cpu
TwoSteps == hist.op = "step" /\ hist.prev_op = "step"
\* the call before last executed the instruction whose opcode is given
FirstExecuted(opcode) ==
    /\ ~Pre2Cpu.halted
    /\ Len(PreQueue) = Len(Pre2Cpu.pending_interrupts)
    /\ read_u8(hist.pre2.bus, Pre2Cpu.pc) = opcode
\* the last call executed the instruction whose opcode is given
SecondExecuted(opcode) ==
    /\ ~PreCpu.halted
    /\ Len(Queue) = Len(PreQueue)
    /\ read_u8(hist.pre.bus, PreCpu.pc) = opcode
\* the three bytes a push at stack pointer sp writes
PushBytes(sp) == {sp, (sp + TwoPow16 - 1) % TwoPow16, (sp + TwoPow16 - 2) % TwoPow16}

\* C15: a step that executes JSR at address p followed by a step that executes
\* RTS (no interrupt serviced by either) leaves PC = p + 4 as a 24-bit address
\* and SP as it was before the JSR, whatever SP was.
C15_JsrRtsRoundTrip ==
    (TwoSteps /\ FirstExecuted(33) /\ SecondExecuted(34))
        => /\ emu.cpu.pc = U32((Pre2Cpu.pc.lo + 4) % TwoPow24)
           /\ emu.cpu.sp = Pre2Cpu.sp
           /\ PreCpu.pc = U32(read_u24(hist.pre2.bus, AddU32(Pre2Cpu.pc, 1)))
           /\ PreCpu.sp = (Pre2Cpu.sp + TwoPow16 - 3) % TwoPow16

\* a JSR and its RTS have run with the three stack bytes wrapping around 0x0000
C15_Witness ==
    /\ TwoSteps /\ FirstExecuted(33) /\ SecondExecuted(34)
    /\ Pre2Cpu.sp = 1
    /\ PushBytes(Pre2Cpu.sp) = {1, 0, 65535}
    /\ emu.cpu.sp = 1

\* the JSR at the last four BIOS bytes has returned to address 0
C15_TopWitness ==
    /\ TwoSteps /\ FirstExecuted(33) /\ SecondExecuted(34)
    /\ Pre2Cpu.pc = U32(16777212)
    /\ emu.cpu.pc = U32(0)

\* the JSR has overwritten the RTS planted at its target with a stack byte
C15_ClobberWitness ==
    /\ TwoSteps /\ FirstExecuted(33)
    /\ PreCpu.pc = U32(512)
    /\ read_u8(hist.pre2.bus, U32(512)) = 34
    /\ read_u8(hist.pre.bus, U32(512)) # 34

\* the call before last serviced the interrupt at the head of the queue
FirstServiced ==
    /\ ~Pre2Cpu.halted
    /\ Len(PreQueue) < Len(Pre2Cpu.pending_interrupts)

C16_WrapWitness ==
    /\ TwoSteps /\ FirstServiced /\ SecondExecuted(66)
    /\ Pre2Cpu.pc.hi # 0

\* ------------------------------------------------------------------ bus claims
Writable(a) ==
    \/ a < EXPANDED_RAM_END
    \/ a >= IO_BASE /\ a < IO_BASE + IO_SIZE
    \/ a >= VRAM_BASE /\ a < CRAM_BASE + CRAM_SIZE
    \/ a >= CART_SAVE_BASE /\ a < CART_SAVE_BASE + CART_SAVE_SIZE
Unmapped(a) ==
    \/ a >= 262144 /\ a <= 1048575
    \/ a >= 1114112 /\ a <= 2097151
    \/ a >= 2686976 /\ a <= 4194303
    \/ a >= 10747904 /\ a <= 16711679
\* the 24-bit addresses whose bytes are compared before and after a write
Probes == EdgeAddrs \cup {1, EXPANDED_RAM_BASE + 1, VRAM_BASE + 1, BIOS_BASE + 1}

\* C17: after write_u8(a, b) with the low 24 bits of a in a writable region,
\* read_u8(a) and read_u8(a mod 2^24) return b and the byte at every other
\* 24-bit address is as before.
C17_WriteReadBack ==
    (hist.op = "write_u8" /\ Writable(hist.arg.lo))
        => /\ read_u8(emu.bus, hist.arg) = hist.value
           /\ read_u8(emu.bus, U32(hist.arg.lo)) = hist.value
           /\ \A p \in Probes \ {hist.arg.lo} :
                 read_u8(emu.bus, U32(p)) = read_u8(hist.pre.bus, U32(p))

\* a byte has been written through an address beyond 24 bits and changed memory
C17_Witness ==
    /\ hist.op = "write_u8"
    /\ Writable(hist.arg.lo)
    /\ hist.arg.hi # 0
    /\ hist.value = 171
    /\ read_u8(hist.pre.bus, hist.arg) = 0
    /\ read_u8(emu.bus, U32(hist.arg.lo)) = 171

\* the 24-bit addresses a write of the given width at the u32 address touches
Targets(op, addr) ==
    {AddU32(addr, k).lo :
        k \in 0..(IF op = "write_u8" THEN 0 ELSE IF op = "write_u16" THEN 1 ELSE 2)}
ReadOnly(a) ==
    \/ a >= CART_ROM_BASE /\ a < CART_ROM_BASE + CART_ROM_SIZE
    \/ a >= BIOS_BASE

\* C18: the bytes of write_u8/u16/u24 that target cartridge ROM, BIOS or an
\* unmapped address change nothing, so after any sequence of writes cartridge ROM
\* and BIOS hold what was loaded and every unmapped address reads 0xFF.
C18_ReadOnlyAndUnmapped ==
    /\ emu.bus.cart_rom = Bus0.cart_rom
    /\ emu.bus.bios = Bus0.bios
    /\ \A p \in Probes :
          /\ ReadOnly(p) => read_u8(emu.bus, U32(p)) = read_u8(Bus0, U32(p))
          /\ Unmapped(p) => read_u8(emu.bus, U32(p)) = 255
          /\ ~Writable(p) => (ReadOnly(p) \/ Unmapped(p))
    /\ (hist.op # "new" /\ \A t \in Targets(hist.op, hist.arg) : ~Writable(t))
          => emu.bus = hist.pre.bus
    /\ hist.op # "new"
          => \A p \in Probes \ {t \in Targets(hist.op, hist.arg) : Writable(t)} :
                read_u8(emu.bus, U32(p)) = read_u8(hist.pre.bus, U32(p))

\* after an earlier write that changed memory, a 24-bit write over the three
\* loaded cartridge bytes has changed nothing and they read as loaded
C18_Witness ==
    /\ hist.op = "write_u24"
    /\ hist.arg = U32(CART_ROM_BASE)
    /\ hist.pre.bus # Bus0
    /\ emu.bus = hist.pre.bus
    /\ read_u24(emu.bus, U32(CART_ROM_BASE)) = 5913795

\* ------------------------------------------------------------------ ALU claims
\* the value of a 16-bit word read as a two's complement number
Signed16(x) == IF x >= 32768 THEN x - TwoPow16 ELSE x
InSigned16(n) == n >= -32768 /\ n <= 32767
\* the immediate operand of the instruction the last step executed
PreOperand == read_u16(hist.pre.bus, AddU32(PreCpu.pc, 1))
Executed(opcode) == IsCpuStep /\ ~PreCpu.halted /\ PreOpcode = opcode

\* C19: ADD with accumulator A and operand v leaves A' = (A + v) mod 2^16,
\* C = 1 iff A + v >= 2^16, V = 1 iff the signed sum is outside -32768..32767,
\* Z = 1 iff A' = 0 and N = bit 15 of A'.
C19_AddFlags ==
    Executed(16)
        => /\ emu.cpu.a = (PreCpu.a + PreOperand) % TwoPow16
           /\ emu.cpu.sr.carry <=> (PreCpu.a + PreOperand >= TwoPow16)
           /\ emu.cpu.sr.overflow
                 <=> ~InSigned16(Signed16(PreCpu.a) + Signed16(PreOperand))
           /\ emu.cpu.sr.zero <=> (emu.cpu.a = 0)
           /\ emu.cpu.sr.negative <=> (emu.cpu.a >= 32768)

\* ADD of 1 to 0xFFFF has run, second in the program: A = 0 with Z and C set
C19_Witness ==
    /\ Executed(16)
    /\ PreCpu.cycles = 2
    /\ PreCpu.a = 65535 /\ PreOperand = 1
    /\ emu.cpu.a = 0 /\ emu.cpu.sr.zero /\ emu.cpu.sr.carry
    /\ ~emu.cpu.sr.overflow

\* C20: SUB with accumulator A and operand v leaves A' = (A - v) mod 2^16,
\* C = 1 iff A >= v (no borrow), V = 1 iff the signed difference is outside
\* -32768..32767, Z = 1 iff A' = 0 and N = bit 15 of A'.
C20_SubFlags ==
    Executed(17)
        => /\ emu.cpu.a = (PreCpu.a - PreOperand) % TwoPow16
           /\ emu.cpu.sr.carry <=> (PreCpu.a >= PreOperand)
           /\ emu.cpu.sr.overflow
                 <=> ~InSigned16(Signed16(PreCpu.a) - Signed16(PreOperand))
           /\ emu.cpu.sr.zero <=> (emu.cpu.a = 0)
           /\ emu.cpu.sr.negative <=> (emu.cpu.a >= 32768)

\* SUB of 1 from 0x8000 has run: A = 0x7FFF with V and C set and N clear
C20_Witness ==
    /\ Executed(17)
    /\ PreCpu.a = 32768 /\ PreOperand = 1
    /\ emu.cpu.a = 32767 /\ emu.cpu.sr.overflow /\ emu.cpu.sr.carry
    /\ ~emu.cpu.sr.negative

\* ------------------------------------------------------------------ branch and opcode claims
\* the operand byte of the instruction the last step executed
PreOffset == read_u8(hist.pre.bus, AddU32(PreCpu.pc, 1))
\* p + k + o as a u32, o being the byte b read as a signed number, computed on
\* the integers limb by limb
Displaced(w, k, b) ==
    LET t == w.lo + k + (IF b >= 128 THEN b - 256 ELSE b)
        carry == IF t < 0 THEN -1 ELSE t \div TwoPow24
    IN  W32((w.hi + TwoPow8 + carry) % TwoPow8, (t + TwoPow24) % TwoPow24)
\* where a two-byte branch at the last step's PC leaves PC
BranchLeaves(taken) == Displaced(PreCpu.pc, 2, IF taken THEN PreOffset ELSE 0)

\* C21: BRA always, BEQ when Z=1 and BNE when Z=0 leave PC = p + 2 + o with o
\* sign-extended (in u32 arithmetic); BEQ/BNE with the condition false leave
\* PC = p + 2; a taken BEQ/BNE adds 3 cycles and a not-taken one adds 2.
C21_Branches ==
    /\ Executed(48) => emu.cpu.pc = BranchLeaves(TRUE)
    /\ Executed(49)
          => /\ emu.cpu.pc = BranchLeaves(PreCpu.sr.zero)
             /\ emu.cpu.cycles = PreCpu.cycles + (IF PreCpu.sr.zero THEN 3 ELSE 2)
    /\ Executed(50)
          => /\ emu.cpu.pc = BranchLeaves(~PreCpu.sr.zero)
             /\ emu.cpu.cycles = PreCpu.cycles + (IF ~PreCpu.sr.zero THEN 3 ELSE 2)

\* a BEQ with Z=1 and a backward offset has been taken
C21_Witness ==
    /\ Executed(49)
    /\ PreCpu.sr.zero
    /\ PreOffset = 252
    /\ PreCpu.pc = U32(BIOS_BASE + 16)
    /\ emu.cpu.pc = U32(BIOS_BASE + 14)
    /\ emu.cpu.cycles = 3

\* the flag condition of the branch opcodes 0x33..0x38 on the flags sr
FlagCondition(opcode, sr) ==
    CASE opcode = 51 -> sr.carry
      [] opcode = 52 -> ~sr.carry
      [] opcode = 53 -> sr.negative
      [] opcode = 54 -> ~sr.negative
      [] opcode = 55 -> sr.overflow
      [] opcode = 56 -> ~sr.overflow

\* C22: each of the opcodes 0x33..0x38 (BCS, BCC, BMI, BPL, BVS, BVC) executes as
\* a two-byte conditional branch on C=1, C=0, N=1, N=0, V=1, V=0: PC advances
\* past the operand byte and the sign-extended offset is added when the
\* condition holds.
C22_FlagBranches ==
    \A opcode \in 51..56 :
        Executed(opcode)
            => emu.cpu.pc = BranchLeaves(FlagCondition(opcode, PreCpu.sr))

\* C23: a step on an opcode byte without an arm of its own behaves as NOP: PC
\* advances by 1, cycles by 1, and registers, flags, SP, halted, the pending
\* queue and memory are unchanged.
C23_UnknownAsNop ==
    (IsCpuStep /\ ~PreCpu.halted /\ PreOpcode \notin Implemented)
        => /\ emu.cpu = [PreCpu EXCEPT !.pc = Displaced(@, 1, 0),
                                       !.cycles = @ + 1]
           /\ emu.bus = hist.pre.bus
           /\ ~emu.cpu.halted

\* opcode 0x33 (BCS in the assembler) with C=1 has run as a one-byte NOP with
\* registers, flags and a masked pending interrupt in place
C23_Witness ==
    /\ IsCpuStep /\ ~PreCpu.halted
    /\ PreOpcode = 51
    /\ PreCpu.sr.carry /\ PreCpu.a = 4660 /\ PreCpu.pending_interrupts = <<3>>
    /\ emu.cpu.pc = U32(BIOS_BASE + 17)
    /\ emu.cpu.cycles = 1

\* ------------------------------------------------------------------ program claims
\* the base cost of an opcode in the opcode table
BaseCost(opcode) ==
    CASE opcode \in {0, 64, 65, 255} -> 1
      [] opcode \in {1, 3, 5} -> 2
      [] opcode \in {2, 4, 6} -> 3
      [] opcode \in 16..20 -> 2
      [] opcode = 32 -> 3
      [] opcode = 33 -> 5
      [] opcode = 34 -> 4
      [] opcode = 66 -> 5
RECURSIVE SumCost(_)
SumCost(seq) == IF seq = <<>> THEN 0 ELSE BaseCost(Head(seq)) + SumCost(Tail(seq))
Halted == emu.cpu.halted /\ hist.executed # <<>> /\ hist.executed[Len(hist.executed)] = 255

\* C24: the cycle counter of a run from reset equals the sum of the base costs of
\* the instructions executed, at halt in particular; the image reset-vector
\* 0xFF0003, LDA #0x1234, STA 0x001000, HLT ends halted with A = 0x1234, the
\* word at 0x001000 = 0x1234 and 6 cycles.
C24_CycleSum ==
    /\ emu.cpu.cycles = SumCost(hist.executed)
    /\ (emu.cpu.halted /\ emu.bus.bios = load_bios(Bus24_new, ImgStats).bios)
          => /\ hist.executed = <<1, 2, 255>>
             /\ emu.cpu.a = 4660
             /\ read_u16(emu.bus, U32(4096)) = 4660
             /\ emu.cpu.cycles = 6

\* the program that uses every opcode of the table has run to halt
C24_Witness ==
    /\ Halted
    /\ Len(hist.executed) = 20
    /\ {hist.executed[i] : i \in 1..20}
          = {0, 1, 2, 3, 4, 5, 6, 16, 17, 18, 19, 20, 32, 33, 34, 64, 65, 66, 255}
    /\ emu.cpu.cycles = 51

\* the three-instruction image has run to halt
C24_StatsWitness ==
    /\ Halted
    /\ hist.executed = <<1, 2, 255>>
    /\ emu.cpu.cycles = 6

\* ------------------------------------------------------------------ DMA claims
DmaControlWritten == hist.op = "vdp_write_reg" /\ hist.arg = 122
DmaDoneQueued(e) ==
    \/ Contains(e.cpu.pending_interrupts, DMA_DONE_PRIORITY)
    \/ FlagContains(e.vdp.irq_status, IrqFlags_DMA_DONE)

\* C25: after a write to the DMA control register (offset 0x007A) with bit 15
\* set, DMA_BUSY is clear and a DMA_DONE completion is queued (interrupt id 5
\* pending on the CPU or DMA_DONE raised in the VDP IRQ status); a write with
\* bit 15 clear changes neither.
C25_DmaDone ==
    /\ (DmaControlWritten /\ hist.value >= 32768)
          => /\ ~FlagContains(emu.vdp.display_status, DisplayStatus_DMA_BUSY)
             /\ DmaDoneQueued(emu)
    /\ (DmaControlWritten /\ hist.value < 32768)
          => /\ emu.vdp.display_status = hist.pre.vdp.display_status
             /\ DmaDoneQueued(emu) <=> DmaDoneQueued(hist.pre)

\* ------------------------------------------------------------------ APU claims
\* C26: take_buffer_empty() returns true only when a buffer-empty event has
\* happened since the last call that returned true, however many step() calls
\* were made in between.
C26_TakeOncePerEvent ==
    (hist.op = "take_buffer_empty" /\ hist.ready) => hist.pre_event

Ticks(cycles) == IF cycles \div 64 > 1 THEN cycles \div 64 ELSE 1
\* what the claim says of one step for the tick count given
StepAsClaimed(ticks) ==
    \A i \in DOMAIN emu.apu.channels :
        LET old == hist.pre.apu.channels[i]
            new == emu.apu.channels[i]
        IN  /\ (old.enabled /\ old.sample_length > 0)
                  => /\ new.sample_length
                            = old.sample_length - Min(ticks, old.sample_length)
                     /\ new.sample_length >= 0
                     /\ new.sample_length = 0
                            => (new.buffer_empty /\ emu.apu.buffer_empty_latch)
                     /\ new.sample_length > 0
                            => new.buffer_empty = old.buffer_empty
            /\ ~old.enabled => new = old
LatchRaisedOnlyOnEmpty ==
    (emu.apu.buffer_empty_latch # hist.pre.apu.buffer_empty_latch)
        => \E i \in DOMAIN emu.apu.channels :
              emu.apu.channels[i].enabled /\ emu.apu.channels[i].sample_length = 0

\* C27 as stated: for every cycles value, zero included, step(cycles) uses
\* ticks = max(cycles / 64, 1).
C27_AsStated ==
    hist.op = "apu_step" => (StepAsClaimed(Ticks(hist.arg)) /\ LatchRaisedOnlyOnEmpty)

\* C27: for every cycles > 0, step(cycles) uses ticks = max(cycles / 64, 1) and
\* leaves each enabled channel with L > 0 at L' = L - min(ticks, L), raising its
\* buffer-empty flag and the latch exactly when L' = 0, and leaves disabled
\* channels alone; step(0) changes nothing.
C27_StepTicks ==
    /\ (hist.op = "apu_step" /\ hist.arg > 0)
          => (StepAsClaimed(Ticks(hist.arg)) /\ LatchRaisedOnlyOnEmpty)
    /\ (hist.op = "apu_step" /\ hist.arg = 0) => emu.apu = hist.pre.apu

\* a step of two ticks has taken channel 0 from 3 to 1 and channel 5 from 1 to
\* 0, raising channel 5's flag and the latch
C27_Witness ==
    /\ hist.op = "apu_step" /\ hist.arg = 128
    /\ hist.pre.apu.channels[0].enabled /\ hist.pre.apu.channels[0].sample_length = 3
    /\ hist.pre.apu.channels[5].enabled /\ hist.pre.apu.channels[5].sample_length = 1
    /\ ~hist.pre.apu.buffer_empty_latch
    /\ emu.apu.channels[0].sample_length = 1 /\ ~emu.apu.channels[0].buffer_empty
    /\ emu.apu.channels[5].sample_length = 0 /\ emu.apu.channels[5].buffer_empty
    /\ emu.apu.buffer_empty_latch

ApuOffsets == 0..(STATUS_OFFSET + 15)
UnknownApuOffset(o) ==
    \/ o < STATUS_OFFSET /\ (o % CHANNEL_STRIDE) \in {7, 13, 14, 15}
    \/ o > GLOBAL_VERSION_OFFSET

\* C28: unknown APU offsets read 0xFF, the version register reads 0x10, and a
\* write to an unknown offset or to the version register leaves the value read
\* from every register and the buffer-empty latch as they were.
C28_UnknownOffsets ==
    /\ \A o \in ApuOffsets : UnknownApuOffset(o) => read_register(emu.apu, o) = 255
    /\ read_register(emu.apu, GLOBAL_VERSION_OFFSET) = 16
    /\ (/\ hist.op = "write_register"
        /\ (UnknownApuOffset(hist.arg) \/ hist.arg = GLOBAL_VERSION_OFFSET))
          => /\ \A o \in ApuOffsets :
                    read_register(emu.apu, o) = read_register(hist.pre.apu, o)
             /\ emu.apu.buffer_empty_latch = hist.pre.apu.buffer_empty_latch

\* ------------------------------------------------------------------ VLU claims
Computed == hist.op = "compute"

\* the vector register indices a job names
JobVectors(job) ==
    CASE job.kind = "Transform" -> {job.dest, job.vec}
      [] job.kind = "Dot" -> {job.a, job.b}
      [] job.kind = "Cross" -> {job.dest, job.a, job.b}
      [] job.kind = "Normalize" -> {job.dest, job.src}

\* the matrix register indices a job names
JobMatrices(job) == IF job.kind = "Transform" THEN {job.matrix} ELSE {}

ValidJob(job) ==
    /\ \A i \in JobVectors(job) : i < VECTOR_REGISTER_COUNT
    /\ \A i \in JobMatrices(job) : i < MATRIX_REGISTER_COUNT

\* C29 as stated: after every successful compute, with all register indices
\* valid, interrupt id 4 (VLU_DONE) is pending in the CPU's queue
C29_VluDoneAlways ==
    (Computed /\ ValidJob(hist.job)) => (hist.result.ok /\ Contains(Queue, 4))

\* C29: a compute with all register indices valid succeeds; made with the I
\* flag clear it leaves interrupt id 4 (VLU_DONE) pending in the CPU's queue,
\* once, with everything that was pending still pending; made with the I flag
\* set it leaves the queue as it was
C29_VluDone ==
    (Computed /\ ValidJob(hist.job)) =>
        /\ hist.result.ok
        /\ IF PreCpu.sr.interrupt_disable
           THEN Queue = PreQueue
           ELSE /\ Contains(Queue, 4)
                /\ Cardinality({k \in 1..Len(Queue) : Queue[k] = 4}) = 1
                /\ \A k \in 1..Len(PreQueue) : Contains(Queue, PreQueue[k])

\* a successful job was computed with the I flag clear and nothing pending, and
\* VLU_DONE is now the pending interrupt
C29_Witness ==
    /\ Computed /\ ValidJob(hist.job) /\ hist.job.kind = "Transform"
    /\ ~PreCpu.sr.interrupt_disable
    /\ PreQueue = <<>>
    /\ Queue = <<4>>
    /\ hist.result.value = Vec3_new(0, 0, 8)

\* C30: a compute naming a vector index >= 8 or a matrix index >= 4 returns
\* InvalidVectorRegister or InvalidMatrixRegister with an offending index of
\* that kind, and leaves the vector registers, the matrix registers,
\* last_scalar and the CPU's pending queue unchanged
C30_InvalidRejected ==
    (Computed /\ ~ValidJob(hist.job)) =>
        /\ ~hist.result.ok
        /\ \/ /\ hist.result.error = "InvalidVectorRegister"
              /\ hist.result.index \in JobVectors(hist.job)
              /\ hist.result.index >= VECTOR_REGISTER_COUNT
           \/ /\ hist.result.error = "InvalidMatrixRegister"
              /\ hist.result.index \in JobMatrices(hist.job)
              /\ hist.result.index >= MATRIX_REGISTER_COUNT
        /\ emu.vlu = hist.pre.vlu
        /\ Queue = PreQueue

\* a Transform of loaded registers into destination 8 was rejected while the
\* I flag was clear and nothing was pending
C30_Witness ==
    /\ Computed
    /\ hist.job = Transform(VECTOR_REGISTER_COUNT, 0, 0)
    /\ hist.pre.vlu.vectors[0] # Vec3_default
    /\ ~PreCpu.sr.interrupt_disable
    /\ PreQueue = <<>>
    /\ hist.result = InvalidVectorRegister(VECTOR_REGISTER_COUNT)

\* a Transform with a valid source and destination and matrix index 4 was
\* rejected with InvalidMatrixRegister
C30_MatrixWitness ==
    /\ Computed
    /\ hist.job = Transform(0, 0, MATRIX_REGISTER_COUNT)
    /\ hist.result = InvalidMatrixRegister(MATRIX_REGISTER_COUNT)

\* ------------------------------------------------------------------ queue claims
\* C34: in every state reached through request_interrupt, trigger_nmi, step and
\* reset the pending queue is ordered by non-increasing priority, and a pending
\* NMI (id 7) is at the head of the queue, whatever the I flag
C34_QueueOrdered ==
    /\ \A k \in 1..(Len(Queue) - 1) : Priority(Queue[k]) >= Priority(Queue[k + 1])
    /\ Contains(Queue, 7) => Queue[1] = 7

\* C34 witness: the NMI was triggered with the I flag set and a maskable id
\* already pending, and stands before it
C34_Witness ==
    /\ hist.op = "trigger_nmi"
    /\ PreCpu.sr.interrupt_disable
    /\ Len(PreQueue) = 1
    /\ ~Contains(PreQueue, 7)
    /\ Queue = <<7>> \o PreQueue

\* the last call was a step that serviced an interrupt: the CPU was not halted
\* and the head of the queue was the NMI or the I flag was clear
ServicingStep ==
    /\ IsCpuStep
    /\ ~PreCpu.halted
    /\ PreQueue # <<>>
    /\ (PreQueue[1] = 7 \/ ~PreCpu.sr.interrupt_disable)

\* C35: only request_interrupt, trigger_nmi and a servicing step change the
\* pending queue: a step that executes an instruction (SEI, CLI, RTI and HLT
\* included), a halted step and reset leave it as it was, and a servicing step
\* removes the serviced id only
C35_QueueOwners ==
    /\ (IsCpuStep /\ ~ServicingStep) => Queue = PreQueue
    /\ hist.op = "reset" => Queue = PreQueue
    /\ ServicingStep => Queue = Tail(PreQueue)

\* C35 witness: HLT was executed with an interrupt pending
C35_Witness ==
    /\ Executed(255)
    /\ ~ServicingStep
    /\ emu.cpu.halted
    /\ Queue # <<>>

\* RTI was executed with an interrupt pending
C35_RtiWitness == Executed(66) /\ ~ServicingStep /\ Queue # <<>>

\* SEI was executed with an interrupt pending
C35_SeiWitness == Executed(64) /\ ~ServicingStep /\ Queue # <<>>

\* CLI was executed with an interrupt pending
C35_CliWitness == Executed(65) /\ ~ServicingStep /\ Queue # <<>>

\* a halted CPU was stepped, and a halted CPU was reset, with an interrupt
\* pending
C35_HaltedWitness == IsCpuStep /\ PreCpu.halted /\ PreQueue # <<>>
C35_ResetWitness == hist.op = "reset" /\ PreCpu.halted /\ PreQueue # <<>>

\* ------------------------------------------------------------------ cycle claims
\* C36: every CPU step (halted step, interrupt service, every opcode byte)
\* adds at least 1 and at most 7 to the cycle counter, and every step_frame
\* call returns: its loop has ended (the CPU is halted or the cycle counter has
\* reached the target) within as many iterations as the frame has cycles, less
\* than 7 cycles past the target, and frame_count is one higher
C36_StepFrameTerminates ==
    /\ IsCpuStep =>
          /\ emu.cpu.cycles >= PreCpu.cycles + 1
          /\ emu.cpu.cycles <= PreCpu.cycles + 7
    /\ hist.op = "step_frame" =>
          /\ ~FrameLoopCond(emu, PreCpu.cycles + hist.pre.target_cycles_per_frame)
          /\ emu.cpu.cycles < PreCpu.cycles + hist.pre.target_cycles_per_frame + 7
          /\ emu.frame_count = hist.pre.frame_count + 1

\* C36 witness: a step_frame call over a frame of 9 cycles returned after an
\* interrupt service and two more steps
C36_Witness ==
    /\ hist.op = "step_frame"
    /\ hist.pre.target_cycles_per_frame = 9
    /\ ~PreCpu.halted
    /\ PreQueue = <<7>>
    /\ emu.cpu.cycles = PreCpu.cycles + 9
    /\ ~emu.cpu.halted

\* a halted CPU was stepped, and a step cost 7 cycles
C36_HaltedWitness == IsCpuStep /\ PreCpu.halted /\ emu.cpu.cycles = PreCpu.cycles + 1
C36_LongestWitness == IsCpuStep /\ emu.cpu.cycles = PreCpu.cycles + 7

\* ------------------------------------------------------------------ APU status claims
\* C39: in every APU state reached from construction by register writes, step
\* and take_buffer_empty, the status register read at offset 0x60 has bit 0
\* (BUFFER_EMPTY) set iff some enabled channel has its buffer-empty flag set,
\* and bit 1 (CHANNEL_ACTIVE) set iff some channel is enabled
C39_StatusReflectsChannels ==
    /\ BitAnd(read_register(emu.apu, STATUS_OFFSET), ApuStatus_BUFFER_EMPTY) # 0
          <=> \E i \in DOMAIN emu.apu.channels :
                  emu.apu.channels[i].enabled /\ emu.apu.channels[i].buffer_empty
    /\ BitAnd(read_register(emu.apu, STATUS_OFFSET), ApuStatus_CHANNEL_ACTIVE) # 0
          <=> \E i \in DOMAIN emu.apu.channels : emu.apu.channels[i].enabled

\* ------------------------------------------------------------------ frame counter claims
\* C40: while a program that has not halted is run only through step_frame
\* from construction, each call produces exactly one V-blank entry: after every
\* call the VDP frame counter equals the emulator's frame_count, the number of
\* calls made
C40_FrameCountersAgree ==
    (hist.op = "step_frame" /\ ~emu.cpu.halted) =>
        /\ emu.frame_count = calls.frames
        /\ emu.vdp.frame_count = emu.frame_count

\* ------------------------------------------------------------------ backdrop claims
\* the last call was a Vdp::step that entered V-blank with the master display
\* enabled and no layer enabled, so that a frame was rendered
BlankFrameRendered ==
    /\ hist.op = "vdp_step"
    /\ emu.vdp.frame_count = hist.pre.vdp.frame_count + 1
    /\ FlagContains(emu.vdp.display_control, DisplayControl_ENABLE)
    /\ ~FlagContains(emu.vdp.display_control, DisplayControl_BG0_ENABLE)
    /\ ~FlagContains(emu.vdp.display_control, DisplayControl_BG1_ENABLE)
    /\ ~FlagContains(emu.vdp.display_control, DisplayControl_SPRITE_ENABLE)

\* the 8-bit expansion of the low six bits of a CRAM byte: the six bits
\* followed by their top two bits
Expand6(c) == (c % 64) * 4 + (c % 64) \div 16

\* C33: after a frame render with the master display enabled and no layer
\* enabled, every framebuffer pixel is (e(CRAM[0]) << 16) | (e(CRAM[1]) << 8) |
\* e(CRAM[2]) with e(c) = ((c & 0x3F) << 2) | ((c & 0x3F) >> 4), which is 0x00
\* for 0x00, 0xFF for 0x3F and never above 0xFF; a backdrop of (0x3F, 0, 0)
\* gives 0x00FF0000
C33_BackdropPixels ==
    BlankFrameRendered =>
        /\ emu.vdp.framebuffer.passes = <<>>
        /\ emu.vdp.framebuffer.clear =
               Expand6(read_cram(emu.vdp, 0)) * 65536
               + Expand6(read_cram(emu.vdp, 1)) * 256
               + Expand6(read_cram(emu.vdp, 2))
        /\ \A k \in 0..2 :
              /\ Expand6(read_cram(emu.vdp, k)) <= 255
              /\ read_cram(emu.vdp, k) = 0 => Expand6(read_cram(emu.vdp, k)) = 0
              /\ read_cram(emu.vdp, k) = 63 => Expand6(read_cram(emu.vdp, k)) = 255
        /\ (read_cram(emu.vdp, 0) = 63 /\ read_cram(emu.vdp, 1) = 0
            /\ read_cram(emu.vdp, 2) = 0) => emu.vdp.framebuffer.clear = 16711680

\* C33 witness: a blank frame was rendered over the backdrop (0x3F, 0, 0)
C33_Witness ==
    /\ BlankFrameRendered
    /\ read_cram(emu.vdp, 0) = 63
    /\ read_cram(emu.vdp, 1) = 0
    /\ read_cram(emu.vdp, 2) = 0
    /\ emu.vdp.framebuffer.clear = 16711680

\* a blank frame was rendered over CRAM bytes with bits 6 and 7 set
C33_MaskedWitness ==
    /\ BlankFrameRendered
    /\ read_cram(emu.vdp, 0) = 64
    /\ read_cram(emu.vdp, 1) = 255
    /\ emu.vdp.framebuffer.clear = 65280 + Expand6(read_cram(emu.vdp, 2))

\* ------------------------------------------------------------------ assembler claims
Assembled == hist.op # "new"
Accepted == Assembled /\ hist.program.err = "None"

\* the lengths of the instructions on the lines before line i
RECURSIVE BytesBefore(_, _)
BytesBefore(source, i) ==
    IF i <= 1 THEN 0
    ELSE BytesBefore(source, i - 1)
         + (IF source[i - 1].kind = "None" THEN 0
            ELSE instruction_length(source[i - 1].kind))

IsInstruction(source, i) == i \in 1..Len(source) /\ source[i].kind # "None"
Declares(source, j, name) == j \in 1..Len(source) /\ Contains(source[j].labels, name)
NamesLabel(source, i) == IsInstruction(source, i) /\ source[i].operand.tag = "Label"

\* the emitted bytes of the instruction on line i
Encoding(i) ==
    SubSeq(hist.program.bytes, BytesBefore(hist.source, i) + 1,
           BytesBefore(hist.source, i) + instruction_length(hist.source[i].kind))

\* C32: when a source assembles, every label maps to the number of bytes emitted
\* before its declaration, the emitted byte count is the sum of the instruction
\* lengths, and an absolute operand that names a label holds that label's offset
\* in 24 bits, little-endian, whether the label is declared earlier or later
C32_LabelOffsets ==
    Accepted =>
        /\ DOMAIN hist.program.labels =
               {name \in {"a", "b"} :
                   \E j \in 1..Len(hist.source) : Declares(hist.source, j, name)}
        /\ \A j \in 1..Len(hist.source) : \A name \in {"a", "b"} :
              Declares(hist.source, j, name) =>
                  hist.program.labels[name] = BytesBefore(hist.source, j)
        /\ Len(hist.program.bytes) = BytesBefore(hist.source, Len(hist.source) + 1)
        /\ \A i \in 1..Len(hist.source) :
              (NamesLabel(hist.source, i) /\ hist.source[i].kind \in AbsoluteKinds) =>
                  \E j \in 1..Len(hist.source) :
                      /\ Declares(hist.source, j, hist.source[i].operand.name)
                      /\ Encoding(i) = <<Opcode(hist.source[i].kind)>>
                                       \o Vec24(BytesBefore(hist.source, j))

\* C32 witness: an assembled source whose absolute operand names a label declared
\* on a later line, at a non-zero offset
C32_Witness ==
    /\ Accepted
    /\ \E i, j \in 1..Len(hist.source) :
          /\ i < j
          /\ NamesLabel(hist.source, i) /\ hist.source[i].kind \in AbsoluteKinds
          /\ Declares(hist.source, j, hist.source[i].operand.name)
          /\ hist.program.labels[hist.source[i].operand.name] > 0

\* an assembled source whose absolute operand names a label declared on an earlier
\* line, more than 128 bytes long
C32_BackwardWitness ==
    /\ Accepted
    /\ Len(hist.program.bytes) > 128
    /\ \E i, j \in 1..Len(hist.source) :
          /\ j < i
          /\ NamesLabel(hist.source, i) /\ hist.source[i].kind \in AbsoluteKinds
          /\ Declares(hist.source, j, hist.source[i].operand.name)

\* the branch on line i has a target: a literal, or a label the source declares
HasTarget(source, i) ==
    /\ IsInstruction(source, i) /\ source[i].kind \in BranchKinds
    /\ \/ source[i].operand.tag = "Value"
       \/ \E j \in 1..Len(source) : Declares(source, j, source[i].operand.name)

\* the target t of the branch on line i, as a u32
TargetOf(source, i) ==
    IF source[i].operand.tag = "Value" THEN source[i].operand.value
    ELSE U32(BytesBefore(source,
                         CHOOSE j \in 1..Len(source) :
                             Declares(source, j, source[i].operand.name)))

\* t - (p + 2) lies in -128..127, for the branch on line i at address p
InRange(source, i) ==
    /\ TargetOf(source, i).hi = 0
    /\ TargetOf(source, i).lo - (BytesBefore(source, i) + 2) \in -128..127

\* every other line of the source is a label or an instruction without operand,
\* and no label is declared twice
OnlyOperand(source, i) ==
    /\ \A j \in 1..Len(source) : j # i => source[j].kind \in NoOperandKinds \cup {"None"}
    /\ \A j, k \in 1..Len(source) : j # k =>
          \A name \in {"a", "b"} : ~(Declares(source, j, name) /\ Declares(source, k, name))

\* C31: for every branch at address p with target t (a label declared before or
\* after it, or a literal), an assembled program holds the two's complement byte of
\* t - (p + 2), which lies in -128..127; when the difference is above 127 or below
\* -128 the assembly returns no program, and fails with BranchOutOfRange
C31_BranchOffsets ==
    Assembled =>
        \A i \in 1..Len(hist.source) : HasTarget(hist.source, i) =>
            /\ Accepted =>
                  /\ InRange(hist.source, i)
                  /\ Encoding(i) =
                        <<Opcode(hist.source[i].kind),
                          (TargetOf(hist.source, i).lo
                           - (BytesBefore(hist.source, i) + 2) + TwoPow8) % TwoPow8>>
            /\ ~InRange(hist.source, i) => ~Accepted
            /\ (~InRange(hist.source, i) /\ OnlyOperand(hist.source, i)) =>
                  hist.program.err = "BranchOutOfRange"

\* a branch to a label 128 bytes behind it was assembled
C31_BackwardWitness ==
    /\ Accepted
    /\ \E i \in 1..Len(hist.source) :
          /\ HasTarget(hist.source, i) /\ hist.source[i].operand.tag = "Label"
          /\ TargetOf(hist.source, i).lo - (BytesBefore(hist.source, i) + 2) = -128
          /\ Encoding(i)[2] = 128

\* a branch to a label 128 bytes ahead of it was refused
C31_RefusedWitness ==
    /\ hist.program.err = "BranchOutOfRange"
    /\ \E i \in 1..Len(hist.source) :
          /\ HasTarget(hist.source, i) /\ hist.source[i].operand.tag = "Label"
          /\ TargetOf(hist.source, i).lo - (BytesBefore(hist.source, i) + 2) = 128

\* a branch to the literal target 0xFFFFFFFF was assembled
C31_WrappedWitness ==
    /\ Accepted
    /\ \E i \in 1..Len(hist.source) :
          /\ HasTarget(hist.source, i)
          /\ hist.source[i].operand = Value(W32(255, TwoPow24 - 1))

\* the CPU stepped from the first byte of the instruction on line i, not halted
SteppedFrom(i) ==
    /\ hist.op = "step"
    /\ IsInstruction(hist.source, i)
    /\ ~hist.pre.cpu.halted
    /\ hist.pre.cpu.pending_interrupts = <<>>
    /\ hist.pre.cpu.pc = U32(BIOS_BASE + BIOS_CODE_OFFSET + BytesBefore(hist.source, i))

\* the instruction of that kind transfers control under the flags sr
Transfers(kind, sr) ==
    \/ kind \in {"Jmp", "Jsr", "Rts", "Rti", "Bra"}
    \/ kind = "Beq" /\ sr.zero
    \/ kind = "Bne" /\ ~sr.zero
    \/ kind = "Bcs" /\ sr.carry
    \/ kind = "Bcc" /\ ~sr.carry
    \/ kind = "Bmi" /\ sr.negative
    \/ kind = "Bpl" /\ ~sr.negative
    \/ kind = "Bvs" /\ sr.overflow
    \/ kind = "Bvc" /\ ~sr.overflow

\* C37: for every mnemonic the assembler accepts, a CPU step from the first byte of
\* its emitted encoding that takes no control transfer advances PC by exactly the
\* assembler's instruction length, to the first byte of the next instruction
C37_LengthsAgree ==
    \A i \in 1..Len(hist.source) :
        (SteppedFrom(i) /\ ~Transfers(hist.source[i].kind, hist.pre.cpu.sr)) =>
            emu.cpu.pc = AddU32(hist.pre.cpu.pc, instruction_length(hist.source[i].kind))

\* the CPU stepped over an LDA with an absolute operand, and PC advanced by 1
C37_AbsoluteWitness ==
    \E i \in 1..Len(hist.source) :
        /\ SteppedFrom(i)
        /\ hist.source[i].kind = "LdaAbs"
        /\ emu.cpu.pc = AddU32(hist.pre.cpu.pc, 1)

\* ------------------------------------------------------------------ BIOS claims
\* the handler the BIOS source writes for the interrupt id n
HandlerOf(n) ==
    CASE n = 0 -> "swi_handler"
      [] n = 1 -> "pad_event_handler"
      [] n = 2 -> "timer0_handler"
      [] n = 3 -> "apu_buf_empty_handler"
      [] n = 4 -> "vlu_done_handler"
      [] n = 5 -> "dma_done_handler"
      [] n = 6 -> "hblank_handler"
      [] n = 7 -> "nmi_handler"

\* C38: with the default BIOS loaded, reset sets PC to the address of the label
\* start, and the step that services the interrupt id n in 0..7 leaves PC at the
\* handler the BIOS source writes for n
C38_BiosVectors ==
    /\ BiosProgram.err = "None"
    /\ hist.op = "reset" => emu.cpu.pc = U32(BiosEntry("start"))
    /\ (ServicingStep /\ PreQueue[1] \in 0..7) =>
          emu.cpu.pc = U32(BiosEntry(HandlerOf(PreQueue[1])))

\* the NMI was serviced after a reset, and PC is at hblank_handler
C38_NmiWitness ==
    /\ ServicingStep
    /\ PreQueue[1] = 7
    /\ calls.resets = 1
    /\ emu.cpu.pc = U32(BiosEntry("hblank_handler"))

\* the reset vector points at start
C38_ResetWitness ==
    /\ hist.op = "reset"
    /\ emu.cpu.pc = U32(BiosEntry("start"))

====
